---- MODULE Spec2Model ----
(***************************************************************************)
(* Model of endpoint-usage-tracker: the EndpointUsageTracker write path    *)
(* (trackUsage and its three Redis pipelines), the Redis store it writes   *)
(* to, and the AutomaticReporter scheduler.                                *)
(*                                                                         *)
(* Strings are sequences of one-character strings, so that startsWith,     *)
(* split and the normalisation regexes are computed, not assumed.          *)
(* Time is counted in seconds (the code's Date.now() is milliseconds; the  *)
(* code's 60000 ms is Minute, 3600000 ms is Hour).                         *)
(*                                                                         *)
(* Redis semantics used: every single command is atomic; the commands of   *)
(* an ioredis pipeline() (which is not MULTI/EXEC) are executed in order   *)
(* but commands of other clients may be served in between; exec() of a     *)
(* pipeline resolves even when single commands fail (their errors are      *)
(* returned in the result array, which the code ignores); a failing        *)
(* stand-alone command rejects its promise.                                *)
(***************************************************************************)
EXTENDS Integers, Sequences, FiniteSets, TLC

VARIABLES hashes, lists, ttl, now, advances, failures, config, calls,
          rconfig, intervalId, timers, discoveredRoutes, disc, ticks,
          script, reads,
          arguments, returned

trackerVars == <<hashes, lists, ttl, now, advances, failures, config, calls>>

reporterVars == <<rconfig, intervalId, timers, discoveredRoutes, disc, ticks>>

readerVars == <<script, reads>>

\* the arguments of a function under test and the values it has returned
functionVars == <<arguments, returned>>

----------------------------------------------------------------------------
(* Bounds *)

MaxCalls == 2

MaxClockAdvances == 1

MaxFailures == 1

----------------------------------------------------------------------------
(* Time *)

Minute == 60

Hour == 60 * Minute

Day == 24 * Hour

T0 == 400 * Day

ClockSteps == {Hour + Minute}

FaultyClockSteps == {1, Hour + Minute, Day}

RawTtlSeconds == 30 * Day

DailyTtlSeconds == 90 * Day

PerfTtlSeconds == 90 * Day

Undef == -1

Truthy(x) == x # Undef /\ x # 0

----------------------------------------------------------------------------
(* Strings *)

Digits == {"0", "1", "2", "3", "4", "5", "6", "7", "8", "9"}

HexChars == Digits \cup {"a", "b", "c", "d", "e", "f", "-"}

UuidLen == 36

LowerLetters == <<"a","b","c","d","e","f","g","h","i","j","k","l","m",
                  "n","o","p","q","r","s","t","u","v","w","x","y","z">>

UpperLetters == <<"A","B","C","D","E","F","G","H","I","J","K","L","M",
                  "N","O","P","Q","R","S","T","U","V","W","X","Y","Z">>

ToUpperChar(c) ==
    IF \E i \in 1..26 : LowerLetters[i] = c
    THEN UpperLetters[CHOOSE i \in 1..26 : LowerLetters[i] = c]
    ELSE c

ToUpperCase(s) == [i \in 1..Len(s) |-> ToUpperChar(s[i])]

StartsWith(s, p) == Len(p) <= Len(s) /\ SubSeq(s, 1, Len(p)) = p

\* path.split('?')[0]
BeforeQuery(s) ==
    IF \E i \in 1..Len(s) : s[i] = "?"
    THEN SubSeq(s, 1, (CHOOSE i \in 1..Len(s) :
                          s[i] = "?" /\ \A j \in 1..(i-1) : s[j] # "?") - 1)
    ELSE s

\* first index >= j of s that is not a digit (Len(s)+1 if none)
RECURSIVE SkipDigits(_, _)
SkipDigits(s, j) ==
    IF j <= Len(s) /\ s[j] \in Digits THEN SkipDigits(s, j + 1) ELSE j

\* first index >= i of s that holds a slash (Len(s)+1 if none)
NextSlash(s, i) ==
    LET slashes == {j \in i..Len(s) : s[j] = "/"}
    IN  IF slashes = {} THEN Len(s) + 1
        ELSE CHOOSE j \in slashes : \A k \in slashes : j <= k

\* a variant without the g flag: only the first match is replaced
RECURSIVE ReplaceNumericOnce(_, _)
ReplaceNumericOnce(s, i) ==
    IF i > Len(s) THEN <<>>
    ELSE IF s[i] = "/" /\ i < Len(s) /\ s[i+1] \in Digits
         THEN <<"/", ":", "i", "d">> \o SubSeq(s, SkipDigits(s, i + 1), Len(s))
         ELSE SubSeq(s, i, NextSlash(s, i + 1) - 1)
              \o ReplaceNumericOnce(s, NextSlash(s, i + 1))

\* path.replace(/\/\d+/g, '/:id'): a match starts at a slash, the text up to the
\* next slash is copied when none starts at i
RECURSIVE ReplaceNumeric(_, _)
ReplaceNumeric(s, i) ==
    IF i > Len(s) THEN <<>>
    ELSE IF s[i] = "/" /\ i < Len(s) /\ s[i+1] \in Digits
         THEN <<"/", ":", "i", "d">> \o ReplaceNumeric(s, SkipDigits(s, i + 1))
         ELSE SubSeq(s, i, NextSlash(s, i + 1) - 1)
              \o ReplaceNumeric(s, NextSlash(s, i + 1))

\* path.replace(/\/[a-f0-9-]{36}/g, '/:uuid')
RECURSIVE ReplaceUuid(_, _)
ReplaceUuid(s, i) ==
    IF i > Len(s) THEN <<>>
    ELSE IF /\ s[i] = "/"
            /\ i + UuidLen <= Len(s)
            /\ \A j \in (i+1)..(i+UuidLen) : s[j] \in HexChars
         THEN <<"/", ":", "u", "u", "i", "d">> \o ReplaceUuid(s, i + UuidLen + 1)
         ELSE SubSeq(s, i, NextSlash(s, i + 1) - 1)
              \o ReplaceUuid(s, NextSlash(s, i + 1))

normalizeEndpoint(cfg, method, path) ==
    LET p0 == IF ~cfg.includeQueryParams THEN BeforeQuery(path) ELSE path
        p1 == ReplaceNumeric(p0, 1)
        p2 == ReplaceUuid(p1, 1)
    IN  ToUpperCase(method) \o <<":">> \o p2

shouldTrackPathNoExclude(cfg, path) == cfg.trackingEnabled

shouldTrackPath(cfg, path) ==
    IF ~cfg.trackingEnabled THEN FALSE
    ELSE ~(\E excludePath \in cfg.excludePaths : StartsWith(path, excludePath))

----------------------------------------------------------------------------
(* Redis: hashes, lists, time-to-live *)

Field(name, arg) == [name |-> name, arg |-> arg]

F(name) == Field(name, 0)

EmptyHash == [f \in {} |-> 0]

HashOf(hs, k) == IF k \in DOMAIN hs THEN hs[k] ELSE EmptyHash

HGet(h, f, dflt) == IF f \in DOMAIN h THEN h[f] ELSE dflt

HSet(h, f, v) == [g \in DOMAIN h \cup {f} |-> IF g = f THEN v ELSE h[g]]

HIncrByOverwrite(h, f, n) == HSet(h, f, n)

HIncrBy(h, f, n) == HSet(h, f, HGet(h, f, 0) + n)

HSetNxOverwrites(h, f, v) == HSet(h, f, v)

HSetNx(h, f, v) == IF f \in DOMAIN h THEN h ELSE HSet(h, f, v)

HDel(h, fs) == [g \in DOMAIN h \ fs |-> h[g]]

\* LPUSH: the new element becomes the head of the list
ListPush(ls, k, item) ==
    [x \in DOMAIN ls \cup {k} |->
        IF x = k THEN <<item>> \o (IF k \in DOMAIN ls THEN ls[k] ELSE << >>)
        ELSE ls[x]]

\* a key whose deadline has passed is no longer visible
Expired(t, clock) == {k \in DOMAIN t : t[k] <= clock}

Purge(m, t, clock) == [k \in DOMAIN m \ Expired(t, clock) |-> m[k]]

Key(family, date, endpoint) == [family |-> family, date |-> date, endpoint |-> endpoint]

Cmd(op, key, field, val) == [op |-> op, key |-> key, field |-> field, val |-> val]

\* the hash store after one pipeline command
ApplyHash(hs, cmd) ==
    LET h == HashOf(hs, cmd.key)
        h2 == CASE cmd.op = "hincrby"      -> HIncrBy(h, cmd.field, cmd.val)
                [] cmd.op = "hincrbyfloat" -> HIncrBy(h, cmd.field, cmd.val)
                [] cmd.op = "hsetnx"       -> HSetNx(h, cmd.field, cmd.val)
                [] cmd.op = "hset"         -> HSet(h, cmd.field, cmd.val)
                [] OTHER                   -> h
    IN  IF cmd.op = "expire" THEN hs
        ELSE [k \in DOMAIN hs \cup {cmd.key} |-> IF k = cmd.key THEN h2 ELSE hs[k]]

\* EXPIRE sets the deadline of an existing key
ApplyTtl(t, hs, ls, cmd, clock) ==
    IF cmd.op = "expire" /\ (cmd.key \in DOMAIN hs \/ cmd.key \in DOMAIN ls)
    THEN [k \in DOMAIN t \cup {cmd.key} |-> IF k = cmd.key THEN clock + cmd.val ELSE t[k]]
    ELSE t

----------------------------------------------------------------------------
(* Tracker configuration and inputs *)

GET == <<"G", "E", "T">>

get == <<"g", "e", "t">>

PathUser1 == <<"/", "u", "/", "1">>

PathUser22 == <<"/", "u", "/", "2", "2">>

PathHealth == <<"/", "h">>

SlowThresholdMs == 1000

Configs ==
    { [trackingEnabled |-> te, excludePaths |-> {PathHealth},
       includeQueryParams |-> FALSE,
       performanceTracking |-> [enabled |-> pe, slowThresholdMs |-> SlowThresholdMs]]
      : te \in BOOLEAN, pe \in BOOLEAN }

UsageInput(m, p, sc, rt, mem, cpu) ==
    [method |-> m, path |-> p, statusCode |-> sc, responseTime |-> rt,
     memoryUsage |-> mem, cpuUsage |-> cpu]

Inputs ==
    { UsageInput(GET, PathUser1, 200, 500, Undef, Undef),
      UsageInput(get, PathUser22, 500, 1500, 10, 5),
      UsageInput(GET, PathHealth, 200, 500, Undef, Undef) }

FaultyInputs ==
    Inputs \cup
    { UsageInput(GET, PathUser1, 404, Undef, Undef, Undef),
      UsageInput(GET, PathUser1, 200, 0, 10, 5) }

NoInput == UsageInput(<<>>, <<>>, 0, Undef, Undef, Undef)

----------------------------------------------------------------------------
(* trackUsage: the pipelines it builds *)

Calls == 1..MaxCalls

RawKey(endpoint) == Key("raw", 0, endpoint)

DailyKey(today, endpoint) == Key("daily", today, endpoint)

GlobalKey(endpoint) == Key("global", 0, endpoint)

PerfKey(endpoint) == Key("performance", 0, endpoint)

\* new Date().toISOString().split('T')[0]: the UTC day
Today(clock) == clock \div Day

\* JSON.stringify drops the properties whose value is undefined
OptionalProps == {"responseTime", "memoryUsage", "cpuUsage"}

JSONStringify(data) ==
    [f \in {g \in DOMAIN data : g \in OptionalProps => data[g] # Undef} |-> data[f]]

ResponseTimeCmds(key, data) ==
    IF Truthy(data.responseTime)
    THEN << Cmd("hincrbyfloat", key, F("total_response_time"), data.responseTime),
            Cmd("hincrby", key, F("response_count"), 1) >>
    ELSE << >>

updateDailyStats(today, endpoint, data) ==
    LET dailyKey == DailyKey(today, endpoint)
    IN  << Cmd("hincrby", dailyKey, F("count"), 1),
           Cmd("hincrby", dailyKey, Field("status_", data.statusCode), 1),
           Cmd("hsetnx", dailyKey, F("first_accessed"), data.timestamp),
           Cmd("hset", dailyKey, F("last_accessed"), data.timestamp) >>
        \o ResponseTimeCmds(dailyKey, data)
        \o << Cmd("expire", dailyKey, F(""), DailyTtlSeconds) >>

updateCounters(endpoint, data) ==
    LET globalKey == GlobalKey(endpoint)
    IN  << Cmd("hincrby", globalKey, F("count"), 1),
           Cmd("hsetnx", globalKey, F("first_accessed"), data.timestamp),
           Cmd("hset", globalKey, F("last_accessed"), data.timestamp),
           Cmd("hincrby", globalKey, Field("status_", data.statusCode), 1) >>
        \o ResponseTimeCmds(globalKey, data)

updatePerformanceStats(cfg, endpoint, data) ==
    LET perfKey == PerfKey(endpoint)
        minuteKey == (data.timestamp \div Minute) * Minute
    IN  << Cmd("hincrby", perfKey, F("total_requests"), 1),
           Cmd("hsetnx", perfKey, F("first_accessed"), data.timestamp),
           Cmd("hset", perfKey, F("last_accessed"), data.timestamp) >>
        \o ResponseTimeCmds(perfKey, data)
        \o (IF Truthy(data.responseTime)
               /\ data.responseTime > cfg.performanceTracking.slowThresholdMs
            THEN << Cmd("hincrby", perfKey, F("slow_requests"), 1) >> ELSE << >>)
        \o (IF data.statusCode >= 400
            THEN << Cmd("hincrby", perfKey, F("error_requests"), 1) >> ELSE << >>)
        \o (IF Truthy(data.memoryUsage)
            THEN << Cmd("hincrbyfloat", perfKey, F("total_memory"), data.memoryUsage),
                    Cmd("hincrby", perfKey, F("memory_count"), 1) >>
            ELSE << >>)
        \o (IF Truthy(data.cpuUsage)
            THEN << Cmd("hincrbyfloat", perfKey, F("total_cpu"), data.cpuUsage),
                    Cmd("hincrby", perfKey, F("cpu_count"), 1) >>
            ELSE << >>)
        \o << Cmd("hincrby", perfKey, Field("throughput_", minuteKey), 1),
              Cmd("expire", perfKey, F(""), PerfTtlSeconds) >>

fieldsToDeleteAnyField(h, currentTimestamp) ==
    {f \in DOMAIN h : f.arg < currentTimestamp - Hour}

\* cleanupOldThroughputData: the throughput_ fields older than one hour
fieldsToDelete(h, currentTimestamp) ==
    {f \in DOMAIN h : f.name = "throughput_" /\ f.arg < currentTimestamp - Hour}

----------------------------------------------------------------------------
(* trackUsage: one step per awaited Redis command *)

IdleCall ==
    [pc |-> "idle", input |-> NoInput, timestamp |-> 0, endpoint |-> <<>>,
     pipe |-> <<>>, toDelete |-> {}]

DataOf(call) ==
    [method |-> call.input.method, path |-> call.input.path,
     statusCode |-> call.input.statusCode, responseTime |-> call.input.responseTime,
     memoryUsage |-> call.input.memoryUsage, cpuUsage |-> call.input.cpuUsage,
     timestamp |-> call.timestamp]

Terminal == {"skipped", "done", "rejected"}

InFlight == {c \in Calls : calls[c].pc \notin Terminal \cup {"idle"}}

\* trackUsage is called: the exclusion check, Date.now() and the normalisation
TrackUsage(c, usageData) ==
    /\ calls[c].pc = "idle"
    /\ \A b \in 1..(c-1) : calls[b].pc # "idle"
    /\ IF ~shouldTrackPath(config, usageData.path)
       THEN calls' = [calls EXCEPT ![c] = [@ EXCEPT !.pc = "skipped", !.input = usageData]]
       ELSE calls' = [calls EXCEPT ![c] =
                [@ EXCEPT !.pc = "lpush", !.input = usageData, !.timestamp = now,
                          !.endpoint = normalizeEndpoint(config, usageData.method,
                                                         usageData.path)]]
    /\ UNCHANGED <<hashes, lists, ttl, now, advances, failures, config, reporterVars,
                   readerVars, functionVars>>

\* await redis.lpush(rawKey, JSON.stringify(data))
LPush(c) ==
    /\ calls[c].pc = "lpush"
    /\ lists' = ListPush(lists, RawKey(calls[c].endpoint),
                         JSONStringify(DataOf(calls[c])))
    /\ calls' = [calls EXCEPT ![c].pc = "expire"]
    /\ UNCHANGED <<hashes, ttl, now, advances, failures, config, reporterVars, readerVars,
                   functionVars>>

\* await redis.expire(rawKey, 30 days); then updateDailyStats builds its pipeline
ExpireRaw(c) ==
    /\ calls[c].pc = "expire"
    /\ ttl' = ApplyTtl(ttl, hashes, lists,
                       Cmd("expire", RawKey(calls[c].endpoint), F(""), RawTtlSeconds), now)
    /\ calls' = [calls EXCEPT ![c] =
            [@ EXCEPT !.pc = "daily",
                      !.pipe = updateDailyStats(Today(now), calls[c].endpoint,
                                                DataOf(calls[c]))]]
    /\ UNCHANGED <<hashes, lists, now, advances, failures, config, reporterVars, readerVars,
                   functionVars>>

\* what the call does once the last command of its current pipeline has replied
AfterPipeline(call) ==
    CASE call.pc = "daily" ->
            [call EXCEPT !.pc = "global",
                         !.pipe = updateCounters(call.endpoint, DataOf(call))]
      [] call.pc = "global" ->
            IF ~config.performanceTracking.enabled
            THEN [call EXCEPT !.pc = "done", !.pipe = << >>]
            ELSE [call EXCEPT !.pc = "perf",
                              !.pipe = updatePerformanceStats(config, call.endpoint,
                                                              DataOf(call))]
      [] call.pc = "perf" -> [call EXCEPT !.pc = "cleanup", !.pipe = << >>]

AdvancePipeline(call) ==
    IF Len(call.pipe) = 1 THEN AfterPipeline(call)
    ELSE [call EXCEPT !.pipe = Tail(call.pipe)]

\* the server executes the next command of the call's pipeline
PipelineCommand(c) ==
    /\ calls[c].pc \in {"daily", "global", "perf"}
    /\ LET cmd == Head(calls[c].pipe)
       IN  /\ hashes' = ApplyHash(hashes, cmd)
           /\ ttl' = ApplyTtl(ttl, hashes, lists, cmd, now)
    /\ calls' = [calls EXCEPT ![c] = AdvancePipeline(calls[c])]
    /\ UNCHANGED <<lists, now, advances, failures, config, reporterVars, readerVars, functionVars>>

\* cleanupOldThroughputData: hgetall(perfKey) and the choice of the fields to delete
CleanupRead(c) ==
    /\ calls[c].pc = "cleanup"
    /\ LET del == fieldsToDelete(HashOf(hashes, PerfKey(calls[c].endpoint)),
                                 calls[c].timestamp)
       IN  calls' = [calls EXCEPT ![c] =
                [@ EXCEPT !.pc = IF del = {} THEN "done" ELSE "hdel", !.toDelete = del]]
    /\ UNCHANGED <<hashes, lists, ttl, now, advances, failures, config, reporterVars,
                   readerVars, functionVars>>

\* await redis.hdel(perfKey, ...fieldsToDelete)
CleanupDelete(c) ==
    /\ calls[c].pc = "hdel"
    /\ LET k == PerfKey(calls[c].endpoint)
       IN  hashes' = IF k \in DOMAIN hashes
                     THEN [hashes EXCEPT ![k] = HDel(@, calls[c].toDelete)]
                     ELSE hashes
    /\ calls' = [calls EXCEPT ![c] = [@ EXCEPT !.pc = "done", !.toDelete = {}]]
    /\ UNCHANGED <<lists, ttl, now, advances, failures, config, reporterVars, readerVars,
                   functionVars>>

\* the store fails an awaited stand-alone command: the promise of trackUsage rejects
CommandFails(c) ==
    /\ calls[c].pc \in {"lpush", "expire", "cleanup", "hdel"}
    /\ failures < MaxFailures
    /\ failures' = failures + 1
    /\ calls' = [calls EXCEPT ![c] = [@ EXCEPT !.pc = "rejected", !.pipe = << >>,
                                               !.toDelete = {}]]
    /\ UNCHANGED <<hashes, lists, ttl, now, advances, config, reporterVars, readerVars,
                   functionVars>>

\* the store fails one command of a pipeline: exec() still resolves
PipelineCommandFails(c) ==
    /\ calls[c].pc \in {"daily", "global", "perf"}
    /\ failures < MaxFailures
    /\ failures' = failures + 1
    /\ calls' = [calls EXCEPT ![c] = AdvancePipeline(calls[c])]
    /\ UNCHANGED <<hashes, lists, ttl, now, advances, config, reporterVars, readerVars,
                   functionVars>>

\* time passes; Redis never shows a key whose time-to-live has run out
AdvanceClock(d) ==
    /\ advances < MaxClockAdvances
    /\ advances' = advances + 1
    /\ now' = now + d
    /\ hashes' = Purge(hashes, ttl, now + d)
    /\ lists' = Purge(lists, ttl, now + d)
    /\ ttl' = Purge(ttl, ttl, now + d)
    /\ UNCHANGED <<failures, config, calls, reporterVars, readerVars, functionVars>>

----------------------------------------------------------------------------
(* Stats Reader: getEndpointStats *)

\* s.split(':'): the pieces of s between the colons
RECURSIVE SplitColon(_, _, _)
SplitColon(s, i, cur) ==
    IF i > Len(s) THEN <<cur>>
    ELSE IF s[i] = ":" THEN <<cur>> \o SplitColon(s, i + 1, << >>)
         ELSE SplitColon(s, i + 1, Append(cur, s[i]))

\* endpoint.split(':', 2): at most the first two pieces
SplitLimit2(s) ==
    LET pieces == SplitColon(s, 1, << >>)
    IN  IF Len(pieces) <= 2 THEN pieces ELSE SubSeq(pieces, 1, 2)

\* the orders in which redis.keys() may return the keys of S
KeyOrders(S) ==
    {ord \in [1..Cardinality(S) -> S] : \A i, j \in 1..Cardinality(S) :
                                           i # j => ord[i] # ord[j]}

GlobalKeys(hs) == {k \in DOMAIN hs : k.family = "global"}

\* a number that need not be whole: num / den
Ratio(n, d) == [num |-> n, den |-> d]

\* the value undefined where a number is expected
Undefined == Ratio(0, 0)

StatOf(hs, key) ==
    LET data == hs[key]
        parts == SplitLimit2(key.endpoint)
    IN  [method |-> parts[1],
         path |-> IF Len(parts) >= 2 THEN parts[2] ELSE << >>,
         count |-> HGet(data, F("count"), 0),
         lastAccessed |-> HGet(data, F("last_accessed"), 0),
         firstAccessed |-> HGet(data, F("first_accessed"), 0),
         responseCount |-> HGet(data, F("response_count"), 0),
         totalResponseTime |-> HGet(data, F("total_response_time"), 0),
         averageResponseTime |->
            IF HGet(data, F("response_count"), 0) > 0
            THEN Ratio(HGet(data, F("total_response_time"), 0),
                       HGet(data, F("response_count"), 0))
            ELSE Undefined]

SortByCountKeepsOrder(seq) == seq

\* Array.prototype.sort((a, b) => b.count - a.count): stable, descending
RECURSIVE InsertByCount(_, _)
InsertByCount(sorted, x) ==
    IF sorted = << >> THEN <<x>>
    ELSE IF Head(sorted).count >= x.count
         THEN <<Head(sorted)>> \o InsertByCount(Tail(sorted), x)
         ELSE <<x>> \o sorted

RECURSIVE SortByCount(_)
SortByCount(seq) ==
    IF seq = << >> THEN << >>
    ELSE InsertByCount(SortByCount(SubSeq(seq, 1, Len(seq) - 1)), seq[Len(seq)])

RECURSIVE StatsInOrder(_, _)
StatsInOrder(hs, ord) ==
    IF ord = << >> THEN << >>
    ELSE (IF DOMAIN hs[Head(ord)] = {} THEN << >> ELSE <<StatOf(hs, Head(ord))>>)
         \o StatsInOrder(hs, Tail(ord))

\* the unfiltered getEndpointStats(), when redis.keys() answers in the order ord
getEndpointStats(hs, ord) == SortByCount(StatsInOrder(hs, ord))

----------------------------------------------------------------------------
(* Stats Reader: getUnusedEndpoints, getPerformanceStats *)

\* thresholdDate.setDate(getDate() - daysThreshold), then the strict filter
getUnusedEndpointsOrEqual(allStats, clock, daysThreshold) ==
    LET thresholdDate == clock - daysThreshold * Day
        Unused(stat) == stat.lastAccessed <= thresholdDate
    IN  SelectSeq(allStats, Unused)

getUnusedEndpoints(allStats, clock, daysThreshold) ==
    LET thresholdDate == clock - daysThreshold * Day
        Unused(stat) == stat.lastAccessed < thresholdDate
    IN  SelectSeq(allStats, Unused)

\* Array.prototype.sort((a, b) => a - b)
RECURSIVE InsertAscending(_, _)
InsertAscending(sorted, x) ==
    IF sorted = << >> THEN <<x>>
    ELSE IF Head(sorted) <= x
         THEN <<Head(sorted)>> \o InsertAscending(Tail(sorted), x)
         ELSE <<x>> \o sorted

RECURSIVE SortAscending(_)
SortAscending(values) ==
    IF values = << >> THEN << >>
    ELSE InsertAscending(SortAscending(SubSeq(values, 1, Len(values) - 1)),
                         values[Len(values)])

\* Math.ceil(n / d) for n >= 0, d > 0
Ceil(n, d) == (n + d - 1) \div d

calculatePercentileFloor(values, percentile) ==
    IF Len(values) = 0 THEN 0
    ELSE LET index == (percentile * Len(values)) \div 100 - 1
         IN  SortAscending(values)[(IF index > 0 THEN index ELSE 0) + 1]

\* sorted[Math.max(0, Math.ceil((percentile / 100) * sorted.length) - 1)]
calculatePercentile(values, percentile) ==
    IF Len(values) = 0 THEN 0
    ELSE LET index == Ceil(percentile * Len(values), 100) - 1
         IN  SortAscending(values)[(IF index > 0 THEN index ELSE 0) + 1]

PerfKeys(hs) == {k \in DOMAIN hs : k.family = "performance"}

\* lrange(rawKey, 0, -1), JSON.parse, and the items with a truthy responseTime
ResponseTimesOf(ls, endpoint) ==
    LET rawData == IF RawKey(endpoint) \in DOMAIN ls THEN ls[RawKey(endpoint)]
                   ELSE << >>
        HasTime(item) == "responseTime" \in DOMAIN item /\ Truthy(item.responseTime)
        kept == SelectSeq(rawData, HasTime)
    IN  [i \in 1..Len(kept) |-> kept[i].responseTime]

PerfStatOf(hs, ls, key) ==
    LET data == hs[key]
        parts == SplitLimit2(key.endpoint)
        responseTimes == ResponseTimesOf(ls, key.endpoint)
        totalRequests == HGet(data, F("total_requests"), 0)
        errorRequests == HGet(data, F("error_requests"), 0)
    IN  [method |-> parts[1],
         path |-> IF Len(parts) >= 2 THEN parts[2] ELSE << >>,
         count |-> totalRequests,
         lastAccessed |-> HGet(data, F("last_accessed"), 0),
         firstAccessed |-> HGet(data, F("first_accessed"), 0),
         averageResponseTime |-> Ratio(HGet(data, F("avg_response_time"), 0), 1),
         performance |->
            [p50ResponseTime |-> calculatePercentile(responseTimes, 50),
             p95ResponseTime |-> calculatePercentile(responseTimes, 95),
             p99ResponseTime |-> calculatePercentile(responseTimes, 99),
             slowRequestCount |-> HGet(data, F("slow_requests"), 0),
             errorRate |-> IF totalRequests > 0 THEN Ratio(errorRequests, totalRequests)
                           ELSE Ratio(0, 1),
             throughput |-> HGet(data, F("throughput"), 0),
             memoryUsage |-> HGet(data, F("avg_memory"), 0),
             cpuUsage |-> HGet(data, F("avg_cpu"), 0)]]

\* stable sort, descending p95ResponseTime
RECURSIVE InsertByP95(_, _)
InsertByP95(sorted, x) ==
    IF sorted = << >> THEN <<x>>
    ELSE IF Head(sorted).performance.p95ResponseTime >= x.performance.p95ResponseTime
         THEN <<Head(sorted)>> \o InsertByP95(Tail(sorted), x)
         ELSE <<x>> \o sorted

RECURSIVE SortByP95(_)
SortByP95(seq) ==
    IF seq = << >> THEN << >>
    ELSE InsertByP95(SortByP95(SubSeq(seq, 1, Len(seq) - 1)), seq[Len(seq)])

RECURSIVE PerfStatsInOrder(_, _, _)
PerfStatsInOrder(hs, ls, ord) ==
    IF ord = << >> THEN << >>
    ELSE (IF DOMAIN hs[Head(ord)] = {} THEN << >>
          ELSE <<PerfStatOf(hs, ls, Head(ord))>>)
         \o PerfStatsInOrder(hs, ls, Tail(ord))

\* the unfiltered getPerformanceStats(), when redis.keys() answers in the order ord
getPerformanceStats(hs, ls, ord) == SortByP95(PerfStatsInOrder(hs, ls, ord))

\* config.performanceAlerts?.errorRateThreshold || 0.05, in percent
ErrorRateThresholdPercent == 5

highErrorRateAtLeast(performanceStats) ==
    LET High(stat) == stat.performance.errorRate.num * 100
                         >= ErrorRateThresholdPercent * stat.performance.errorRate.den
        high == SelectSeq(performanceStats, High)
    IN  [i \in 1..Len(high) |->
            [method |-> high[i].method, path |-> high[i].path,
             errorRate |-> high[i].performance.errorRate,
             totalRequests |-> high[i].count]]

\* generateReport: the stats whose errorRate is above the threshold
highErrorRateEndpoints(performanceStats) ==
    LET High(stat) == stat.performance.errorRate.num * 100
                         > ErrorRateThresholdPercent * stat.performance.errorRate.den
        high == SelectSeq(performanceStats, High)
    IN  [i \in 1..Len(high) |->
            [method |-> high[i].method, path |-> high[i].path,
             errorRate |-> high[i].performance.errorRate,
             totalRequests |-> high[i].count]]

\* config.performanceAlerts?.slowEndpointThresholdMs || 2000
SlowEndpointThresholdMs == 2000

\* generateReport: the stats whose averageResponseTime is above the threshold
slowEndpoints(performanceStats) ==
    LET Slow(stat) == stat.averageResponseTime.num
                         > SlowEndpointThresholdMs * stat.averageResponseTime.den
        slow == SelectSeq(performanceStats, Slow)
    IN  [i \in 1..Len(slow) |->
            [method |-> slow[i].method, path |-> slow[i].path,
             averageResponseTime |-> slow[i].averageResponseTime,
             p95ResponseTime |-> slow[i].performance.p95ResponseTime]]

\* Array.prototype.slice(0, 10)
Slice10(seq) == SubSeq(seq, 1, IF Len(seq) < 10 THEN Len(seq) ELSE 10)

\* the result of the client's last awaited call; trackUsage resolves with nothing
NoRead == [kind |-> "none", daysThreshold |-> 0, stats |-> << >>,
           slowEndpoints |-> << >>]

\* the events the client will record, and how many of them it has recorded
NoScript == [events |-> << >>, done |-> 0]

ReaderIdle ==
    /\ script = NoScript
    /\ reads = NoRead

NoFunctionCall ==
    /\ arguments = << >>
    /\ returned = << >>

----------------------------------------------------------------------------
(* Route discovery and the report *)

RouteInfo(m, p) == [method |-> m, path |-> p]

RouteKeyOf(r) == r.method \o <<":">> \o r.path

\* Map.set: a key already present keeps its position
MapSet(routes, r) ==
    IF \E i \in 1..Len(routes) : RouteKeyOf(routes[i]) = RouteKeyOf(r)
    THEN [i \in 1..Len(routes) |->
            IF RouteKeyOf(routes[i]) = RouteKeyOf(r) THEN r ELSE routes[i]]
    ELSE Append(routes, r)

\* new Map(allStats.map(...)).get(routeKey): the last entry with that key wins
StatsMapGet(allStats, routeKey) ==
    LET idx == {i \in 1..Len(allStats) : RouteKeyOf(allStats[i]) = routeKey}
    IN  IF idx = {} THEN << >>
        ELSE <<allStats[CHOOSE i \in idx : \A j \in idx : j <= i]>>

\* usageStats.find(...): the first entry with that method and path
StatsFind(allStats, route) ==
    LET idx == {i \in 1..Len(allStats) :
                   allStats[i].method = route.method /\ allStats[i].path = route.path}
    IN  IF idx = {} THEN << >>
        ELSE <<allStats[CHOOSE i \in idx : \A j \in idx : i <= j]>>

findUnusedRoutes(allStats, routes, clock, daysThreshold) ==
    LET thresholdDate == clock - daysThreshold * Day
        Unused(route) ==
            LET stats == StatsMapGet(allStats, RouteKeyOf(route))
            IN  stats = << >> \/ stats[1].lastAccessed < thresholdDate
    IN  SelectSeq(routes, Unused)

\* generateReport: unusedWithDetails
unusedWithDetails(unusedRoutes, usageStats, clock, daysThreshold) ==
    [i \in 1..Len(unusedRoutes) |->
        LET route == unusedRoutes[i]
            stats == StatsFind(usageStats, route)
        IN  [method |-> route.method, path |-> route.path,
             daysSinceLastUse |->
                IF stats # << >> THEN (clock - stats[1].lastAccessed) \div Day
                ELSE daysThreshold + 1,
             totalRequests |-> IF stats # << >> THEN stats[1].count ELSE 0]]

----------------------------------------------------------------------------
(* AutomaticReporter: scheduler, ticks, notifications *)

MaxTicks == 2

Ticks == 1..MaxTicks

Channels == {"webhook", "slack", "email"}

\* the channels whose delivery awaits a fetch() response
FetchChannels == {"webhook", "slack"}

DaysThreshold == 30

ReportConfigs ==
    { [enabled |-> en, daysThreshold |-> DaysThreshold, notifications |-> n,
       htmlReport |-> html]
      : en \in BOOLEAN, n \in {{}, Channels}, html \in BOOLEAN }

IdleTick ==
    [pc |-> "idle", by |-> "none", unusedRoutes |-> << >>, unusedEndpoints |-> << >>,
     built |-> FALSE, unusedPercentage |-> 0, attempts |-> [ch \in Channels |-> 0], pending |-> {},
     failed |-> {}, error |-> FALSE, totalRoutes |-> 0]

MaxDiscoveries == 2

\* the calls of registerDiscoveredRoutes that can be in flight at once
Discoveries == 1..MaxDiscoveries

IdleDisc == [pc |-> "idle", queue |-> << >>, pipe |-> << >>]

\* the loop of registerDiscoveredRoutes has returned
DoneDisc == [pc |-> "done", queue |-> << >>, pipe |-> << >>]

ReporterIdle ==
    /\ rconfig = [enabled |-> FALSE, daysThreshold |-> DaysThreshold,
                  notifications |-> {}, htmlReport |-> FALSE]
    /\ intervalId = 0
    /\ timers = {}
    /\ discoveredRoutes = << >>
    /\ disc = [d \in Discoveries |-> IdleDisc]
    /\ ticks = [t \in Ticks |-> IdleTick]

FreeTicks == {t \in Ticks : ticks[t].pc = "idle"}

NextTick == CHOOSE t \in FreeTicks : \A u \in FreeTicks : t <= u

BeginTickNever(t, caller) == ticks

\* generateAndSendReport() is called by start() or by the interval callback: it
\* runs up to its first await
BeginTick(t, caller) == [ticks EXCEPT ![t].pc = "findUnused", ![t].by = caller]

Generating == {"findUnused", "build"}

StartUnguarded ==
    /\ FreeTicks # {}
    /\ ticks' = BeginTick(NextTick, "start")
    /\ LET id == CHOOSE i \in 1..(Cardinality(timers) + 1) : i \notin timers
       IN  /\ intervalId' = id
           /\ timers' = timers \cup {id}
    /\ UNCHANGED <<readerVars, functionVars, trackerVars, rconfig, discoveredRoutes, disc>>

\* start()
Start ==
    /\ IF ~rconfig.enabled \/ intervalId # 0
       THEN UNCHANGED <<intervalId, timers, ticks>>
       ELSE /\ FreeTicks # {}
            /\ ticks' = BeginTick(NextTick, "start")
            /\ LET id == CHOOSE i \in 1..(Cardinality(timers) + 1) : i \notin timers
               IN  /\ intervalId' = id
                   /\ timers' = timers \cup {id}
    /\ UNCHANGED <<readerVars, functionVars, trackerVars, rconfig, discoveredRoutes, disc>>

clearIntervalKeeps(armed, id) == armed

\* clearInterval(id): the timer will not fire again
clearInterval(armed, id) == armed \ {id}

\* stop()
Stop ==
    /\ IF intervalId # 0
       THEN /\ timers' = clearInterval(timers, intervalId)
            /\ intervalId' = 0
       ELSE UNCHANGED <<intervalId, timers>>
    /\ UNCHANGED <<readerVars, functionVars, trackerVars, rconfig, discoveredRoutes, disc, ticks>>

\* the interval of an active timer elapses: its callback starts a tick
TimerFire(id) ==
    /\ id \in timers
    /\ FreeTicks # {}
    /\ ticks' = BeginTick(NextTick, "interval")
    /\ UNCHANGED <<readerVars, functionVars, trackerVars, rconfig, intervalId, timers,
                   discoveredRoutes, disc>>

afterReadsFlushes(hs) == [k \in {} |-> EmptyHash]

\* the store after KEYS, HGETALL and LRANGE: read commands change no key
afterReads(hs) == hs

\* generateUsageReport: findUnusedRoutes reads the stats and the discovered routes
GenFindUnused(t, ord) ==
    /\ ticks[t].pc = "findUnused"
    /\ ticks' = [ticks EXCEPT ![t] =
            [@ EXCEPT !.pc = "build",
                      !.unusedRoutes =
                          findUnusedRoutes(getEndpointStats(hashes, ord),
                                           discoveredRoutes, now,
                                           rconfig.daysThreshold)]]
    /\ hashes' = afterReads(hashes)
    /\ UNCHANGED <<readerVars, functionVars, lists, ttl, now, advances, failures, config, calls,
                   rconfig, intervalId, timers, discoveredRoutes, disc>>

\* the value NaN of a JavaScript number
NaN == -2

\* Math.round((usageReport.unused / usageReport.total) * 100); 0 / 0 is NaN
unusedPercentage(unused, total) ==
    IF total = 0 THEN NaN
    ELSE (200 * unused + total) \div (2 * total)

sendAlways(report) == TRUE

\* generateAndSendReport: a report without unused endpoints is not sent
shouldSend(unusedEndpoints) == Len(unusedEndpoints) # 0

\* the second read of the stats and the rest of generateReport; then the decision
GenBuild(t, ord) ==
    /\ ticks[t].pc = "build"
    /\ LET details == unusedWithDetails(ticks[t].unusedRoutes,
                                        getEndpointStats(hashes, ord), now,
                                        rconfig.daysThreshold)
       IN  ticks' = [ticks EXCEPT ![t] =
                [@ EXCEPT !.pc = IF shouldSend(details) THEN "notify" ELSE "done",
                          !.built = TRUE,
                          !.unusedPercentage =
                              unusedPercentage(Len(ticks[t].unusedRoutes),
                                               Len(discoveredRoutes)),
                          !.totalRoutes = Len(discoveredRoutes),
                          !.unusedEndpoints = details]]
    /\ hashes' = afterReads(hashes)
    /\ UNCHANGED <<readerVars, functionVars, lists, ttl, now, advances, failures, config, calls,
                   rconfig, intervalId, timers, discoveredRoutes, disc>>

errorEscapes(tick) == [tick EXCEPT !.pc = "rejected", !.error = TRUE]

\* the catch of generateAndSendReport: the error is logged and the tick ends
catchError(tick) == [tick EXCEPT !.pc = "done", !.error = TRUE]

\* a store read fails while the report is built
GenFails(t) ==
    /\ ticks[t].pc \in Generating
    /\ failures < MaxFailures
    /\ failures' = failures + 1
    /\ ticks' = [ticks EXCEPT ![t] = catchError(@)]
    /\ UNCHANGED <<readerVars, functionVars, hashes, lists, ttl, now, advances, config, calls,
                   rconfig, intervalId, timers, discoveredRoutes, disc>>

channelsElseIf(notifications) ==
    IF "webhook" \in notifications THEN {"webhook"}
    ELSE IF "slack" \in notifications THEN {"slack"}
    ELSE notifications \cap {"email"}

\* sendNotifications: one promise per configured channel
channelsToNotify(notifications) ==
    (IF "webhook" \in notifications THEN {"webhook"} ELSE {})
    \cup (IF "slack" \in notifications THEN {"slack"} ELSE {})
    \cup (IF "email" \in notifications THEN {"email"} ELSE {})

\* what follows Promise.allSettled
AfterNotifications(tick) ==
    [tick EXCEPT !.pc = IF rconfig.htmlReport THEN "html" ELSE "done"]

\* sendNotifications: every send function is called, the fetches are in flight
SendNotifications(t) ==
    /\ ticks[t].pc = "notify"
    /\ LET chans == channelsToNotify(rconfig.notifications)
           started == [ticks[t] EXCEPT
                          !.attempts = [ch \in Channels |->
                                           IF ch \in chans THEN @[ch] + 1 ELSE @[ch]],
                          !.pending = chans \cap FetchChannels,
                          !.pc = "awaiting"]
       IN  ticks' = [ticks EXCEPT ![t] =
                IF started.pending = {} THEN AfterNotifications(started) ELSE started]
    /\ UNCHANGED <<readerVars, functionVars, trackerVars, rconfig, intervalId, timers,
                   discoveredRoutes, disc>>

FetchOutcomes == {"ok", "non2xx", "throws"}

\* the fetch of one channel settles; a failure is caught and logged by its sender
FetchSettles(t, ch, outcome) ==
    /\ ticks[t].pc = "awaiting"
    /\ ch \in ticks[t].pending
    /\ LET settled == [ticks[t] EXCEPT
                          !.pending = @ \ {ch},
                          !.failed = IF outcome = "ok" THEN @ ELSE @ \cup {ch}]
       IN  ticks' = [ticks EXCEPT ![t] =
                IF settled.pending = {} THEN AfterNotifications(settled) ELSE settled]
    /\ UNCHANGED <<readerVars, functionVars, trackerVars, rconfig, intervalId, timers,
                   discoveredRoutes, disc>>

\* generateHtmlReport
GenerateHtml(t) ==
    /\ ticks[t].pc = "html"
    /\ ticks' = [ticks EXCEPT ![t].pc = "done"]
    /\ UNCHANGED <<readerVars, functionVars, trackerVars, rconfig, intervalId, timers,
                   discoveredRoutes, disc>>

----------------------------------------------------------------------------
(* discoverExpressRoutes and registerRoute *)

RouteKey(endpoint) == Key("routes", 0, endpoint)

RouteKeys(hs) == {k \in DOMAIN hs : k.family = "routes"}

RouteTtlSeconds == 365 * Day

registerRouteOverwrites(cfg, method, path, clock) ==
    IF ~shouldTrackPath(cfg, path) THEN << >>
    ELSE LET routeKey == RouteKey(normalizeEndpoint(cfg, method, path))
         IN  << Cmd("hset", routeKey, F("discovered_at"), clock),
                Cmd("hset", routeKey, F("method"), ToUpperCase(method)),
                Cmd("hset", routeKey, F("path"), path),
                Cmd("expire", routeKey, F(""), RouteTtlSeconds) >>

\* registerRoute: the commands it awaits one after the other
registerRoute(cfg, method, path, clock) ==
    IF ~shouldTrackPath(cfg, path) THEN << >>
    ELSE LET routeKey == RouteKey(normalizeEndpoint(cfg, method, path))
         IN  << Cmd("hsetnx", routeKey, F("discovered_at"), clock),
                Cmd("hsetnx", routeKey, F("method"), ToUpperCase(method)),
                Cmd("hsetnx", routeKey, F("path"), path),
                Cmd("expire", routeKey, F(""), RouteTtlSeconds) >>

\* registerDiscoveredRoutes: the loop sets the next route in the map and runs up
\* to its await of registerRoute
RegisterLoop(routes, queue, clock) ==
    IF queue = << >> THEN [routes |-> routes, d |-> DoneDisc]
    ELSE LET r == Head(queue)
             cmds == registerRoute(config, r.method, r.path, clock)
         IN  [routes |-> MapSet(routes, r),
              d |-> [pc |-> IF cmds = << >> THEN "resolved" ELSE "registering",
                     queue |-> Tail(queue), pipe |-> cmds]]

\* discoverExpressRoutes(app): the routes of the app are handed to the loop,
\* which nobody awaits
DiscoverExpressRoutes(d, app) ==
    /\ disc[d].pc = "idle"
    /\ \A b \in 1..(d - 1) : disc[b].pc # "idle"
    /\ LET res == RegisterLoop(discoveredRoutes, app, now)
       IN  /\ discoveredRoutes' = res.routes
           /\ disc' = [disc EXCEPT ![d] = res.d]
    /\ UNCHANGED <<readerVars, functionVars, trackerVars, rconfig, intervalId, timers, ticks>>

\* one awaited command of registerRoute is executed
RegisterCommand(d) ==
    /\ disc[d].pc = "registering"
    /\ LET cmd == Head(disc[d].pipe)
       IN  /\ hashes' = ApplyHash(hashes, cmd)
           /\ ttl' = ApplyTtl(ttl, hashes, lists, cmd, now)
    /\ IF Len(disc[d].pipe) > 1
       THEN /\ disc' = [disc EXCEPT ![d].pipe = Tail(@)]
            /\ UNCHANGED discoveredRoutes
       ELSE LET res == RegisterLoop(discoveredRoutes, disc[d].queue, now)
            IN  /\ discoveredRoutes' = res.routes
                /\ disc' = [disc EXCEPT ![d] = res.d]
    /\ UNCHANGED <<readerVars, functionVars, lists, now, advances, failures, config, calls,
                   rconfig, intervalId, timers, ticks>>

\* registerRoute has returned without a command (the path is excluded): the
\* await of its settled promise resumes the loop in a later job
RegisterResumes(d) ==
    /\ disc[d].pc = "resolved"
    /\ LET res == RegisterLoop(discoveredRoutes, disc[d].queue, now)
       IN  /\ discoveredRoutes' = res.routes
           /\ disc' = [disc EXCEPT ![d] = res.d]
    /\ UNCHANGED <<readerVars, functionVars, trackerVars, rconfig, intervalId, timers, ticks>>

\* an awaited command of registerRoute fails: registerRoute rejects, and with it
\* the loop, which leaves the routes still queued out of the map
RegisterFails(d) ==
    /\ disc[d].pc = "registering"
    /\ failures < MaxFailures
    /\ failures' = failures + 1
    /\ disc' = [disc EXCEPT ![d] = [pc |-> "rejected", queue |-> disc[d].queue,
                                    pipe |-> << >>]]
    /\ UNCHANGED <<readerVars, functionVars, hashes, lists, ttl, now, advances, config, calls,
                   rconfig, intervalId, timers, discoveredRoutes, ticks>>

----------------------------------------------------------------------------
(* The tracker under concurrent trackUsage calls *)

Init ==
    /\ hashes = [k \in {} |-> EmptyHash]
    /\ lists = [k \in {} |-> << >>]
    /\ ttl = [k \in {} |-> 0]
    /\ now = T0
    /\ advances = 0
    /\ failures = 0
    /\ config \in Configs
    /\ calls = [c \in Calls |-> IdleCall]
    /\ ReporterIdle
    /\ ReaderIdle
    /\ NoFunctionCall

Next ==
    \/ \E c \in Calls, usageData \in Inputs : TrackUsage(c, usageData)
    \/ \E c \in Calls : LPush(c)
    \/ \E c \in Calls : ExpireRaw(c)
    \/ \E c \in Calls : PipelineCommand(c)
    \/ \E c \in Calls : CleanupRead(c)
    \/ \E c \in Calls : CleanupDelete(c)
    \/ \E d \in ClockSteps : AdvanceClock(d)

vars == <<trackerVars, reporterVars, readerVars, functionVars>>

Spec == Init /\ [][Next]_vars

----------------------------------------------------------------------------
(* The reporter over a store that earlier trackUsage calls have filled *)

Store(hs, ls, t) == [hashes |-> hs, lists |-> ls, ttl |-> t]

EmptyStore ==
    Store([k \in {} |-> EmptyHash], [k \in {} |-> << >>], [k \in {} |-> 0])

\* the store after one command
Apply(st, cmd, clock) ==
    [st EXCEPT !.hashes = ApplyHash(@, cmd),
               !.ttl = ApplyTtl(@, st.hashes, st.lists, cmd, clock)]

\* the store after the commands cmds, in their order
RECURSIVE RunCommands(_, _, _)
RunCommands(st, cmds, clock) ==
    IF cmds = << >> THEN st
    ELSE Apply(RunCommands(st, SubSeq(cmds, 1, Len(cmds) - 1), clock),
               cmds[Len(cmds)], clock)

\* the stores of S after one complete, undisturbed trackUsage(usageData) at time
\* clock; every awaited step works on the stores the step before it has left
AfterTrackUsage(S, cfg, usageData, clock) ==
    IF ~shouldTrackPath(cfg, usageData.path) THEN S
    ELSE
    LET call == [IdleCall EXCEPT !.input = usageData, !.timestamp = clock,
                     !.endpoint = normalizeEndpoint(cfg, usageData.method,
                                                    usageData.path)]
        data == DataOf(call)
        rawKey == RawKey(call.endpoint)
        perfKey == PerfKey(call.endpoint)
        pushed == { [st EXCEPT !.lists = ListPush(@, rawKey, JSONStringify(data))]
                    : st \in S }
        raw == { Apply(st, Cmd("expire", rawKey, F(""), RawTtlSeconds), clock)
                 : st \in pushed }
        daily == { RunCommands(st, updateDailyStats(Today(clock), call.endpoint, data),
                               clock) : st \in raw }
        counters == { RunCommands(st, updateCounters(call.endpoint, data), clock)
                      : st \in daily }
        perf == { RunCommands(st, updatePerformanceStats(cfg, call.endpoint, data),
                              clock) : st \in counters }
        cleaned == { [st EXCEPT !.hashes[perfKey] = HDel(@, fieldsToDelete(@, clock))]
                     : st \in perf }
    IN  IF cfg.performanceTracking.enabled THEN cleaned ELSE counters

PathA == <<"/", "a">>

PathUserId == <<"/", "u", "/", ":", "i", "d">>

ReporterTrackerConfig ==
    [trackingEnabled |-> TRUE, excludePaths |-> {PathHealth},
     includeQueryParams |-> FALSE,
     performanceTracking |-> [enabled |-> TRUE, slowThresholdMs |-> SlowThresholdMs]]

ReporterInputs ==
    << UsageInput(GET, PathA, 200, 500, Undef, Undef),
       UsageInput(GET, PathUser1, 500, 1500, Undef, Undef) >>

RECURSIVE AfterTrackUsages(_, _, _, _)
AfterTrackUsages(S, cfg, inputs, clock) ==
    IF inputs = << >> THEN S
    ELSE AfterTrackUsage(AfterTrackUsages(S, cfg, SubSeq(inputs, 1, Len(inputs) - 1),
                                          clock),
                         cfg, inputs[Len(inputs)], clock)

PurgeStore(st, clock) ==
    Store(Purge(st.hashes, st.ttl, clock), Purge(st.lists, st.ttl, clock),
          Purge(st.ttl, st.ttl, clock))

\* the endpoints were used just now
UsedNow == AfterTrackUsages({EmptyStore}, ReporterTrackerConfig, ReporterInputs, T0)

\* the endpoints were last used one day more than the threshold ago
UsedLongAgo ==
    { PurgeStore(st, T0)
      : st \in AfterTrackUsages({EmptyStore}, ReporterTrackerConfig, ReporterInputs,
                                T0 - (DaysThreshold + 1) * Day) }

SeedStores == {EmptyStore} \cup UsedNow \cup UsedLongAgo

Apps ==
    { << RouteInfo(GET, PathA) >>,
      << RouteInfo(GET, PathHealth), RouteInfo(GET, PathUserId) >> }

\* the discovered routes and the store after a complete discoverExpressRoutes(app)
RECURSIVE AfterDiscovery(_, _, _)
AfterDiscovery(st, app, clock) ==
    IF app = << >> THEN [store |-> st, routes |-> << >>]
    ELSE LET before == AfterDiscovery(st, SubSeq(app, 1, Len(app) - 1), clock)
             r == app[Len(app)]
         IN  [store |-> RunCommands(before.store,
                                    registerRoute(ReporterTrackerConfig, r.method,
                                                  r.path, clock), clock),
              routes |-> MapSet(before.routes, r)]

SeedStates ==
    { AfterDiscovery(st, app, T0) : st \in SeedStores, app \in Apps \cup {<< >>} }

InitReporter ==
    /\ \E seed \in SeedStates :
          /\ hashes = seed.store.hashes
          /\ lists = seed.store.lists
          /\ ttl = seed.store.ttl
          /\ discoveredRoutes = seed.routes
    /\ now = T0
    /\ advances = 0
    /\ failures = 0
    /\ config = ReporterTrackerConfig
    /\ calls = [c \in Calls |-> IdleCall]
    /\ rconfig \in ReportConfigs
    /\ intervalId = 0
    /\ timers = {}
    /\ disc = [d \in Discoveries |-> IdleDisc]
    /\ ticks = [t \in Ticks |-> IdleTick]
    /\ ReaderIdle
    /\ NoFunctionCall

NextReporter ==
    \/ Start
    \/ Stop
    \/ \E id \in timers : TimerFire(id)
    \/ \E t \in Ticks, ord \in KeyOrders(GlobalKeys(hashes)) : GenFindUnused(t, ord)
    \/ \E t \in Ticks, ord \in KeyOrders(GlobalKeys(hashes)) : GenBuild(t, ord)
    \/ \E t \in Ticks : GenFails(t)
    \/ \E t \in Ticks : SendNotifications(t)
    \/ \E t \in Ticks, ch \in Channels, outcome \in FetchOutcomes :
          FetchSettles(t, ch, outcome)
    \/ \E t \in Ticks : GenerateHtml(t)

SpecReporter == InitReporter /\ [][NextReporter]_vars

----------------------------------------------------------------------------
(* Route discovery while time passes *)

DiscoveryClockSteps == {1, RouteTtlSeconds}

InitDiscovery ==
    /\ hashes = EmptyStore.hashes
    /\ lists = EmptyStore.lists
    /\ ttl = EmptyStore.ttl
    /\ now = T0
    /\ advances = 0
    /\ failures = 0
    /\ config \in {cfg \in Configs : cfg.performanceTracking.enabled}
    /\ calls = [c \in Calls |-> IdleCall]
    /\ ReporterIdle
    /\ ReaderIdle
    /\ NoFunctionCall

\* the apps of the tracker's process: two of them have a route for GET:/u/:id
DiscoveryApps == Apps \cup { << RouteInfo(GET, PathUser1) >> }

NextDiscovery ==
    \/ \E d \in Discoveries, app \in DiscoveryApps : DiscoverExpressRoutes(d, app)
    \/ \E d \in Discoveries : RegisterCommand(d)
    \/ \E d \in Discoveries : RegisterResumes(d)
    \/ \E d \in DiscoveryClockSteps : AdvanceClock(d)

SpecDiscovery == InitDiscovery /\ [][NextDiscovery]_vars

----------------------------------------------------------------------------
(* One trackUsage call at a time against a store that can fail *)

\* the store is empty, or it has recorded a request two hours ago
UsedTwoHoursAgo ==
    AfterTrackUsage({EmptyStore}, ReporterTrackerConfig,
                    UsageInput(GET, PathUser1, 200, 500, Undef, Undef), T0 - 2 * Hour)

InitFaulty ==
    /\ \E st \in {EmptyStore} \cup UsedTwoHoursAgo :
          /\ hashes = st.hashes
          /\ lists = st.lists
          /\ ttl = st.ttl
    /\ now = T0
    /\ advances = 0
    /\ failures = 0
    /\ config \in Configs
    /\ calls = [c \in Calls |-> IdleCall]
    /\ ReporterIdle
    /\ ReaderIdle
    /\ NoFunctionCall

NextFaulty ==
    \/ \E usageData \in FaultyInputs : TrackUsage(1, usageData)
    \/ LPush(1)
    \/ ExpireRaw(1)
    \/ PipelineCommand(1)
    \/ CleanupRead(1)
    \/ CleanupDelete(1)
    \/ CommandFails(1)
    \/ PipelineCommandFails(1)
    \/ \E d \in FaultyClockSteps : AdvanceClock(d)

SpecFaulty == InitFaulty /\ [][NextFaulty]_vars

----------------------------------------------------------------------------
(* One client that records a script of events and reads the stats; it awaits   *)
(* every call before it makes the next                                        *)

MaxEvents == 20

PathB == <<"/", "b">>

\* MaxEvents requests of which the first k fail; the response times fall
ErrorScript(k) ==
    [i \in 1..MaxEvents |->
        UsageInput(GET, PathUser1, IF i <= k THEN 500 ELSE 200,
                   100 * (MaxEvents + 1 - i), Undef, Undef)]

Scripts ==
    { << UsageInput(GET, PathUser1, 200, 100, Undef, Undef) >>,
      << UsageInput(GET, PathUser1, 200, 100, Undef, Undef),
         UsageInput(GET, PathUser1, 200, 200, Undef, Undef),
         UsageInput(GET, PathUser1, 200, 300, Undef, Undef) >>,
      << UsageInput(GET, PathA, 200, 300, Undef, Undef),
         UsageInput(GET, PathB, 404, Undef, Undef, Undef),
         UsageInput(GET, PathA, 200, 0, 10, 5),
         UsageInput(GET, PathA, 500, 1500, Undef, Undef),
         UsageInput(GET, PathHealth, 200, 100, Undef, Undef) >>,
      << UsageInput(GET, PathUser1, 200, 3000, Undef, Undef),
         UsageInput(GET, PathUser1, 200, 6000, Undef, Undef) >>,
      ErrorScript(1),
      ErrorScript(2) }

ReaderThresholds == {DaysThreshold, 50}

ReaderClockSteps == {Minute, DaysThreshold * Day, (DaysThreshold + 1) * Day, 45 * Day}

\* await tracker.trackUsage(event) for the next event of the script
AwaitTrackUsage ==
    /\ script.done < Len(script.events)
    /\ LET after == CHOOSE st \in AfterTrackUsage({Store(hashes, lists, ttl)}, config,
                                                  script.events[script.done + 1], now)
                        : TRUE
       IN  /\ hashes' = after.hashes
           /\ lists' = after.lists
           /\ ttl' = after.ttl
    /\ script' = [script EXCEPT !.done = @ + 1]
    /\ reads' = NoRead
    /\ UNCHANGED <<now, advances, failures, config, calls, reporterVars, functionVars>>

\* await tracker.getEndpointStats()
GetEndpointStats(ord) ==
    /\ reads' = [kind |-> "endpointStats", daysThreshold |-> 0,
                 stats |-> getEndpointStats(hashes, ord), slowEndpoints |-> << >>]
    /\ UNCHANGED <<trackerVars, reporterVars, functionVars, script>>

\* await tracker.getPerformanceStats()
GetPerformanceStats(ord) ==
    /\ reads' = [kind |-> "performanceStats", daysThreshold |-> 0,
                 stats |-> getPerformanceStats(hashes, lists, ord),
                 slowEndpoints |-> << >>]
    /\ UNCHANGED <<trackerVars, reporterVars, functionVars, script>>

\* await tracker.getUnusedEndpoints(daysThreshold)
GetUnusedEndpoints(daysThreshold, ord) ==
    /\ reads' = [kind |-> "unusedEndpoints", daysThreshold |-> daysThreshold,
                 stats |-> getUnusedEndpoints(getEndpointStats(hashes, ord), now,
                                              daysThreshold),
                 slowEndpoints |-> << >>]
    /\ UNCHANGED <<trackerVars, reporterVars, functionVars, script>>

\* generateReport: performanceIssues.highErrorRateEndpoints of the report
GenerateReport(ord) ==
    /\ reads' = [kind |-> "highErrorRateEndpoints", daysThreshold |-> 0,
                 stats |-> Slice10(highErrorRateEndpoints(
                                       getPerformanceStats(hashes, lists, ord))),
                 slowEndpoints |-> Slice10(slowEndpoints(
                                       getPerformanceStats(hashes, lists, ord)))]
    /\ UNCHANGED <<trackerVars, reporterVars, functionVars, script>>

InitReader ==
    /\ hashes = EmptyStore.hashes
    /\ lists = EmptyStore.lists
    /\ ttl = EmptyStore.ttl
    /\ now = T0
    /\ advances = 0
    /\ failures = 0
    /\ config \in Configs
    /\ calls = [c \in Calls |-> IdleCall]
    /\ ReporterIdle
    /\ script \in {[events |-> events, done |-> 0] : events \in Scripts}
    /\ reads = NoRead
    /\ NoFunctionCall

NextReader ==
    \/ AwaitTrackUsage
    \/ \E ord \in KeyOrders(GlobalKeys(hashes)) : GetEndpointStats(ord)
    \/ \E ord \in KeyOrders(PerfKeys(hashes)) : GetPerformanceStats(ord)
    \/ \E th \in ReaderThresholds, ord \in KeyOrders(GlobalKeys(hashes)) :
          GetUnusedEndpoints(th, ord)
    \/ \E ord \in KeyOrders(PerfKeys(hashes)) : GenerateReport(ord)
    \/ \E d \in ReaderClockSteps : script.done = Len(script.events) /\ AdvanceClock(d)

SpecReader == InitReader /\ [][NextReader]_vars

----------------------------------------------------------------------------
(* clearStats, and one trackUsage call at a time on a store that already holds *)
(* a request of 29 days ago                                                   *)

\* the keys clearStats(olderThanDays) deletes: new Date(dateStr) is the UTC
\* midnight of the daily key's date
clearedKeys(keys, olderThanDays, clock) ==
    IF Truthy(olderThanDays)
    THEN {k \in keys : k.family = "daily" /\ k.date * Day < clock - olderThanDays * Day}
    ELSE keys

\* DEL
Del(m, keys) == [k \in DOMAIN m \ keys |-> m[k]]

\* await tracker.clearStats(olderThanDays); Undef is the call without a parameter
ClearStats(olderThanDays) ==
    /\ LET gone == clearedKeys(DOMAIN hashes \cup DOMAIN lists, olderThanDays, now)
       IN  /\ hashes' = Del(hashes, gone)
           /\ lists' = Del(lists, gone)
           /\ ttl' = Del(ttl, gone)
    /\ UNCHANGED <<now, advances, failures, config, calls, reporterVars, readerVars, functionVars>>

ClearParameters == {Undef, 0, 1, DaysThreshold}

MaintenanceClockSteps == {2 * Day}

UsedLastMonth ==
    AfterTrackUsage({EmptyStore}, ReporterTrackerConfig,
                    UsageInput(GET, PathUser1, 200, 500, Undef, Undef), T0 - 29 * Day)

InitMaintenance ==
    /\ \E st \in {EmptyStore} \cup UsedLastMonth :
          /\ hashes = st.hashes
          /\ lists = st.lists
          /\ ttl = st.ttl
    /\ now = T0
    /\ advances = 0
    /\ failures = 0
    /\ config = ReporterTrackerConfig
    /\ calls = [c \in Calls |-> IdleCall]
    /\ ReporterIdle
    /\ ReaderIdle
    /\ NoFunctionCall

NextMaintenance ==
    \/ \E usageData \in Inputs : TrackUsage(1, usageData)
    \/ LPush(1)
    \/ ExpireRaw(1)
    \/ PipelineCommand(1)
    \/ CleanupRead(1)
    \/ CleanupDelete(1)
    \/ \E d \in MaintenanceClockSteps : AdvanceClock(d)
    \/ \E olderThanDays \in ClearParameters : ClearStats(olderThanDays)

SpecMaintenance == InitMaintenance /\ [][NextMaintenance]_vars

----------------------------------------------------------------------------
(* Two overlapping trackUsage calls for one key whose performance record holds *)
(* a bucket of two hours ago                                                  *)

OverlapCalls == {1, 2}

InitOverlap ==
    /\ \E st \in UsedTwoHoursAgo :
          /\ hashes = st.hashes
          /\ lists = st.lists
          /\ ttl = st.ttl
    /\ now = T0
    /\ advances = 0
    /\ failures = 0
    /\ config = ReporterTrackerConfig
    /\ calls = [c \in Calls |-> IdleCall]
    /\ ReporterIdle
    /\ ReaderIdle
    /\ NoFunctionCall

NextOverlap ==
    \/ \E c \in OverlapCalls :
          TrackUsage(c, UsageInput(GET, PathUser1, 200, 500, Undef, Undef))
    \/ \E c \in OverlapCalls : LPush(c)
    \/ \E c \in OverlapCalls : ExpireRaw(c)
    \/ \E c \in OverlapCalls : PipelineCommand(c)
    \/ \E c \in OverlapCalls : CleanupRead(c)
    \/ \E c \in OverlapCalls : CleanupDelete(c)
    \/ \E d \in ClockSteps : AdvanceClock(d)

SpecOverlap == InitOverlap /\ [][NextOverlap]_vars

----------------------------------------------------------------------------
(* AutomaticReporter: generateRecommendations *)

VeryOldDays == 90

ManyUnused == 5

VerySlowMs == 5000

\* a message of the list: the rule that pushes it and the number its text shows
\* (0 for the texts without a number)
Recommendation(rule, n) == [rule |-> rule, n |-> n]

Pushed(cond, rule, n) == IF cond THEN <<Recommendation(rule, n)>> ELSE << >>

unusedRecommendations(unusedList) ==
    IF Len(unusedList) = 0
    THEN <<Recommendation("allUsed", 0)>>
    ELSE LET VeryOld(e) == e.daysSinceLastUse > VeryOldDays
             NeverUsed(e) == e.totalRequests = 0
             veryOldEndpoints == SelectSeq(unusedList, VeryOld)
             neverUsedEndpoints == SelectSeq(unusedList, NeverUsed)
         IN  Pushed(Len(veryOldEndpoints) > 0, "veryOld", Len(veryOldEndpoints))
             \o Pushed(Len(neverUsedEndpoints) > 0, "neverUsed", Len(neverUsedEndpoints))
             \o Pushed(Len(unusedList) > ManyUnused, "manyUnused", 0)

performanceRecommendations(slowList) ==
    IF Len(slowList) > 0
    THEN LET VerySlow(e) == e.averageResponseTime.num
                               > VerySlowMs * e.averageResponseTime.den
             verySlow == SelectSeq(slowList, VerySlow)
         IN  <<Recommendation("slow", Len(slowList))>>
             \o Pushed(Len(verySlow) > 0, "verySlow", Len(verySlow))
    ELSE << >>

errorRecommendations(highErrorRateList) ==
    Pushed(Len(highErrorRateList) > 0, "highErrorRate", Len(highErrorRateList))

\* a variant that pushes the performance messages first
generateRecommendationsPerformanceFirst(unusedList, slowList, highErrorRateList) ==
    performanceRecommendations(slowList)
    \o unusedRecommendations(unusedList)
    \o errorRecommendations(highErrorRateList)

generateRecommendations(unusedList, slowList, highErrorRateList) ==
    unusedRecommendations(unusedList)
    \o performanceRecommendations(slowList)
    \o errorRecommendations(highErrorRateList)

\* the lists the function is applied to
MaxUnused == 6

MaxSlow == 2

MaxHighErrorRate == 1

SeqsUpTo(S, n) == UNION {[1..k -> S] : k \in 0..n}

UnusedDetails ==
    { [daysSinceLastUse |-> VeryOldDays, totalRequests |-> 3],
      [daysSinceLastUse |-> VeryOldDays + 1, totalRequests |-> 3],
      [daysSinceLastUse |-> DaysThreshold + 1, totalRequests |-> 0] }

SlowDetails ==
    { [averageResponseTime |-> Ratio(VerySlowMs, 1)],
      [averageResponseTime |-> Ratio(VerySlowMs + 1, 1)] }

HighErrorRateDetails == { [errorRate |-> Ratio(1, 2), totalRequests |-> 2] }

\* how often the report is generated from the same lists
Generations == 2

InitRecommendations ==
    /\ hashes = EmptyStore.hashes
    /\ lists = EmptyStore.lists
    /\ ttl = EmptyStore.ttl
    /\ now = T0
    /\ advances = 0
    /\ failures = 0
    /\ config = ReporterTrackerConfig
    /\ calls = [c \in Calls |-> IdleCall]
    /\ ReporterIdle
    /\ ReaderIdle
    /\ arguments \in [unusedEndpoints : SeqsUpTo(UnusedDetails, MaxUnused),
                      slowEndpoints : SeqsUpTo(SlowDetails, MaxSlow),
                      highErrorRateEndpoints :
                          SeqsUpTo(HighErrorRateDetails, MaxHighErrorRate)]
    /\ returned = << >>

GenerateRecommendations ==
    /\ Len(returned) < Generations
    /\ returned' = Append(returned,
                          generateRecommendations(arguments.unusedEndpoints,
                                                  arguments.slowEndpoints,
                                                  arguments.highErrorRateEndpoints))
    /\ UNCHANGED <<trackerVars, reporterVars, readerVars, arguments>>

NextRecommendations == GenerateRecommendations

SpecRecommendations == InitRecommendations /\ [][NextRecommendations]_vars

----------------------------------------------------------------------------
(* normalizeEndpoint applied to its own result *)

\* the pieces the paths are built from, two of them of the length of a UUID
UuidOfLetters == [i \in 1..UuidLen |-> IF i \in {9, 14, 19, 24} THEN "-" ELSE "a"]

UuidOfDigits == [i \in 1..UuidLen |-> IF i \in {9, 14, 19, 24} THEN "-" ELSE "1"]

PathPieces ==
    { <<"/">>, <<"1">>, <<"a">>, <<"?">>, <<":">>, UuidOfLetters, UuidOfDigits }

MaxPieces == 4

RECURSIVE Flatten(_)
Flatten(pieces) ==
    IF pieces = << >> THEN << >> ELSE Head(pieces) \o Flatten(Tail(pieces))

PiecePaths == {Flatten(q) : q \in SeqsUpTo(PathPieces, MaxPieces)}

\* the method and the path of an endpoint key: the text before and after the
\* first colon
MethodOfKey(endpoint) ==
    SubSeq(endpoint, 1, (CHOOSE i \in 1..Len(endpoint) :
                            endpoint[i] = ":" /\ \A j \in 1..(i-1) : endpoint[j] # ":") - 1)

PathOfKey(endpoint) == SubSeq(endpoint, Len(MethodOfKey(endpoint)) + 2, Len(endpoint))

InitNormalize ==
    /\ hashes = EmptyStore.hashes
    /\ lists = EmptyStore.lists
    /\ ttl = EmptyStore.ttl
    /\ now = T0
    /\ advances = 0
    /\ failures = 0
    /\ \E includeQueryParams \in BOOLEAN :
          config = [ReporterTrackerConfig EXCEPT !.includeQueryParams = includeQueryParams]
    /\ calls = [c \in Calls |-> IdleCall]
    /\ ReporterIdle
    /\ ReaderIdle
    /\ arguments \in [method : {GET, get}, path : PiecePaths]
    /\ returned = << >>

NormalizeEndpoint ==
    /\ returned = << >>
    /\ returned' = <<normalizeEndpoint(config, arguments.method, arguments.path)>>
    /\ UNCHANGED <<trackerVars, reporterVars, readerVars, arguments>>

NormalizeAgain ==
    /\ Len(returned) = 1
    /\ returned' = Append(returned,
                          normalizeEndpoint(config, MethodOfKey(returned[1]),
                                            PathOfKey(returned[1])))
    /\ UNCHANGED <<trackerVars, reporterVars, readerVars, arguments>>

NextNormalize == NormalizeEndpoint \/ NormalizeAgain

SpecNormalize == InitNormalize /\ [][NextNormalize]_vars

----------------------------------------------------------------------------
(* One trackUsage call for a key whose raw list is one second from its expiry *)

UsedAlmostThirtyDaysAgo ==
    AfterTrackUsage({EmptyStore}, ReporterTrackerConfig,
                    UsageInput(GET, PathUser1, 200, 500, Undef, Undef),
                    T0 - RawTtlSeconds + 1)

ExpiryClockSteps == {1, Day}

InitExpiry ==
    /\ \E st \in UsedAlmostThirtyDaysAgo :
          /\ hashes = st.hashes
          /\ lists = st.lists
          /\ ttl = st.ttl
    /\ now = T0
    /\ advances = 0
    /\ failures = 0
    /\ config = ReporterTrackerConfig
    /\ calls = [c \in Calls |-> IdleCall]
    /\ ReporterIdle
    /\ ReaderIdle
    /\ NoFunctionCall

NextExpiry ==
    \/ \E usageData \in Inputs : TrackUsage(1, usageData)
    \/ LPush(1)
    \/ ExpireRaw(1)
    \/ PipelineCommand(1)
    \/ CleanupRead(1)
    \/ CleanupDelete(1)
    \/ \E d \in ExpiryClockSteps : AdvanceClock(d)

SpecExpiry == InitExpiry /\ [][NextExpiry]_vars

----------------------------------------------------------------------------
(* Route discovery followed at once by the reporter's start() *)

StartupApps ==
    { << RouteInfo(GET, PathA), RouteInfo(GET, PathB) >>,
      << RouteInfo(GET, PathHealth), RouteInfo(GET, PathA) >>,
      << RouteInfo(GET, PathA) >> }

InitStartup ==
    /\ \E st \in {EmptyStore} \cup UsedNow :
          /\ hashes = st.hashes
          /\ lists = st.lists
          /\ ttl = st.ttl
    /\ now = T0
    /\ advances = 0
    /\ failures = 0
    /\ config = ReporterTrackerConfig
    /\ calls = [c \in Calls |-> IdleCall]
    /\ rconfig = [enabled |-> TRUE, daysThreshold |-> DaysThreshold,
                  notifications |-> {}, htmlReport |-> FALSE]
    /\ intervalId = 0
    /\ timers = {}
    /\ discoveredRoutes = << >>
    /\ disc = [d \in Discoveries |-> IdleDisc]
    /\ ticks = [t \in Ticks |-> IdleTick]
    /\ ReaderIdle
    /\ NoFunctionCall

\* start() is called after discoverExpressRoutes has returned
NextStartup ==
    \/ \E d \in Discoveries, app \in StartupApps : DiscoverExpressRoutes(d, app)
    \/ \E d \in Discoveries : RegisterCommand(d)
    \/ \E d \in Discoveries : RegisterResumes(d)
    \/ \E d \in Discoveries : RegisterFails(d)
    \/ disc[1].pc # "idle" /\ Start
    \/ \E t \in Ticks, ord \in KeyOrders(GlobalKeys(hashes)) : GenFindUnused(t, ord)
    \/ \E t \in Ticks, ord \in KeyOrders(GlobalKeys(hashes)) : GenBuild(t, ord)

SpecStartup == InitStartup /\ [][NextStartup]_vars

----------------------------------------------------------------------------
(* Requests recorded while a report is generated *)

\* GET /a is a discovered route that was last used 31 days ago
RaceSeeds ==
    { AfterDiscovery(st, << RouteInfo(GET, PathA) >>, T0) : st \in UsedLongAgo }

RaceInputs == { UsageInput(GET, PathA, 200, 500, Undef, Undef) }

InitRace ==
    /\ \E seed \in RaceSeeds :
          /\ hashes = seed.store.hashes
          /\ lists = seed.store.lists
          /\ ttl = seed.store.ttl
          /\ discoveredRoutes = seed.routes
    /\ now = T0
    /\ advances = 0
    /\ failures = 0
    /\ config = ReporterTrackerConfig
    /\ calls = [c \in Calls |-> IdleCall]
    /\ rconfig = [enabled |-> TRUE, daysThreshold |-> DaysThreshold,
                  notifications |-> {}, htmlReport |-> FALSE]
    /\ intervalId = 0
    /\ timers = {}
    /\ disc = [d \in Discoveries |-> IdleDisc]
    /\ ticks = [t \in Ticks |-> IdleTick]
    /\ ReaderIdle
    /\ NoFunctionCall

NextRace ==
    \/ \E c \in Calls, usageData \in RaceInputs : TrackUsage(c, usageData)
    \/ \E c \in Calls : LPush(c)
    \/ \E c \in Calls : ExpireRaw(c)
    \/ \E c \in Calls : PipelineCommand(c)
    \/ \E c \in Calls : CleanupRead(c)
    \/ \E c \in Calls : CleanupDelete(c)
    \/ Start
    \/ \E t \in Ticks, ord \in KeyOrders(GlobalKeys(hashes)) : GenFindUnused(t, ord)
    \/ \E t \in Ticks, ord \in KeyOrders(GlobalKeys(hashes)) : GenBuild(t, ord)

SpecRace == InitRace /\ [][NextRace]_vars

----------------------------------------------------------------------------
(* The registered routes read while routes are registered *)

\* a property of a returned object: << >> is undefined
Optional(h, f) == IF f \in DOMAIN h THEN <<h[f]>> ELSE << >>

\* getRegisteredRoutes: one HGETALL per key, in the order of redis.keys()
getRegisteredRoutes(hs, ord) ==
    LET NotEmpty(key) == DOMAIN hs[key] # {}
        keys == SelectSeq(ord, NotEmpty)
    IN  [i \in 1..Len(keys) |->
            [method |-> Optional(hs[keys[i]], F("method")),
             path |-> Optional(hs[keys[i]], F("path")),
             discoveredAt |-> HGet(hs[keys[i]], F("discovered_at"), 0)]]

\* await tracker.getRegisteredRoutes()
GetRegisteredRoutes(ord) ==
    /\ reads' = [kind |-> "registeredRoutes", daysThreshold |-> 0,
                 stats |-> getRegisteredRoutes(hashes, ord), slowEndpoints |-> << >>]
    /\ UNCHANGED <<trackerVars, reporterVars, functionVars, script>>

InitRegistry ==
    /\ hashes = EmptyStore.hashes
    /\ lists = EmptyStore.lists
    /\ ttl = EmptyStore.ttl
    /\ now = T0
    /\ advances = 0
    /\ failures = 0
    /\ config = ReporterTrackerConfig
    /\ calls = [c \in Calls |-> IdleCall]
    /\ ReporterIdle
    /\ ReaderIdle
    /\ NoFunctionCall

NextRegistry ==
    \/ \E d \in Discoveries, app \in DiscoveryApps : DiscoverExpressRoutes(d, app)
    \/ \E d \in Discoveries : RegisterCommand(d)
    \/ \E d \in Discoveries : RegisterResumes(d)
    \/ \E d \in Discoveries : RegisterFails(d)
    \/ \E ord \in KeyOrders(RouteKeys(hashes)) : GetRegisteredRoutes(ord)

SpecRegistry == InitRegistry /\ [][NextRegistry]_vars

----------------------------------------------------------------------------
(* Properties *)

GlobalCount(e) == HGet(HashOf(hashes, GlobalKey(e)), F("count"), 0)

DoneCallsFor(e) == {c \in Calls : calls[c].pc = "done" /\ calls[c].endpoint = e}

RecordedEndpoints ==
    {calls[c].endpoint : c \in {b \in Calls : calls[b].pc = "done"}}
    \cup {k.endpoint : k \in GlobalKeys(hashes)}

\* C1: once no trackUsage call is in flight and no store command has failed, the
\* global count of every endpoint key equals the number of completed calls for it
C1_CountEqualsCalls ==
    (InFlight = {} /\ failures = 0)
        => \A e \in RecordedEndpoints : GlobalCount(e) = Cardinality(DoneCallsFor(e))

C1_Witness ==
    /\ InFlight = {}
    /\ \E e \in RecordedEndpoints :
          /\ Cardinality(DoneCallsFor(e)) >= 2
          /\ GlobalCount(e) = Cardinality(DoneCallsFor(e))
          /\ \E c, d \in DoneCallsFor(e) : calls[c].input.path # calls[d].input.path

RECURSIVE SumFields(_, _)
SumFields(h, fs) ==
    IF fs = {} THEN 0
    ELSE LET f == CHOOSE g \in fs : TRUE
         IN  h[f] + SumFields(h, fs \ {f})

StatusSum(h) == SumFields(h, {f \in DOMAIN h : f.name = "status_"})

\* C2: no state of the store shows a half-updated record: in every global and
\* daily record count equals the sum of the status counters, and a performance
\* record that has counted a request also has its access times
C2_NoHalfUpdatedRecord ==
    \A k \in DOMAIN hashes :
        /\ k.family \in {"global", "daily"}
              => HGet(hashes[k], F("count"), 0) = StatusSum(hashes[k])
        /\ k.family = "performance"
              => (HGet(hashes[k], F("total_requests"), 0) > 0
                    => F("last_accessed") \in DOMAIN hashes[k])

MaxTimestamp(cs) == CHOOSE m \in {calls[c].timestamp : c \in cs} :
                        \A c \in cs : calls[c].timestamp <= m

\* C3: once no call is in flight, lastAccessed of every global record is the
\* largest timestamp among the events recorded for its key
C3_LastAccessedIsMax ==
    (InFlight = {} /\ failures = 0)
        => \A e \in RecordedEndpoints :
              DoneCallsFor(e) # {}
                 => HGet(HashOf(hashes, GlobalKey(e)), F("last_accessed"), 0)
                        = MaxTimestamp(DoneCallsFor(e))

\* C4: a first_accessed field, once written, keeps its value in every later step,
\* in global, daily and performance records alike
C4_FirstAccessedSetOnce ==
    [][\A k \in DOMAIN hashes :
          F("first_accessed") \in DOMAIN hashes[k]
             => /\ k \in DOMAIN hashes'
                /\ F("first_accessed") \in DOMAIN hashes'[k]
                /\ hashes'[k][F("first_accessed")] = hashes[k][F("first_accessed")]]_vars

C4_Witness ==
    \E k \in DOMAIN hashes :
        /\ k.family = "performance"
        /\ F("first_accessed") \in DOMAIN hashes[k]
        /\ F("last_accessed") \in DOMAIN hashes[k]
        /\ hashes[k][F("first_accessed")] < hashes[k][F("last_accessed")]
        /\ HGet(hashes[GlobalKey(k.endpoint)], F("first_accessed"), 0)
              < HGet(hashes[GlobalKey(k.endpoint)], F("last_accessed"), 0)

\* C5: no trackUsage call ever ends with a rejected promise
C5_NeverRejects == \A c \in Calls : calls[c].pc # "rejected"

CountFieldNames ==
    {"count", "status_", "response_count", "total_requests", "slow_requests",
     "error_requests", "memory_count", "cpu_count"}

\* C6: in every step every count field of every aggregate record stays present
\* and does not decrease
C6_CountsNonDecreasing ==
    [][\A k \in DOMAIN hashes : \A f \in DOMAIN hashes[k] :
          f.name \in CountFieldNames
             => /\ k \in DOMAIN hashes'
                /\ f \in DOMAIN hashes'[k]
                /\ hashes'[k][f] >= hashes[k][f]]_vars

C6_Witness ==
    \E k \in DOMAIN hashes :
        /\ k.family = "performance"
        /\ HGet(hashes[k], F("total_requests"), 0) >= 2
        /\ HGet(hashes[k], F("slow_requests"), 0) >= 1
        /\ HGet(hashes[k], F("error_requests"), 0) >= 1
        /\ HGet(hashes[k], F("memory_count"), 0) >= 1
        /\ HGet(hashes[k], F("cpu_count"), 0) >= 1
        /\ Cardinality({f \in DOMAIN hashes[k] : f.name = "throughput_"}) = 1
        /\ \A c \in Calls : calls[c].pc = "done"
        /\ advances > 0

Excluded(path) ==
    \/ ~config.trackingEnabled
    \/ \E p \in config.excludePaths : StartsWith(path, p)

\* C7: a trackUsage call for an excluded path, or with tracking disabled, only
\* returns: the step that takes it leaves every key of the store unchanged, and
\* the call takes no other step
C7_UntrackedIsNoOp ==
    [][\A c \in Calls :
          (calls'[c] # calls[c] /\ Excluded(calls'[c].input.path))
             => /\ calls[c].pc = "idle"
                /\ calls'[c].pc = "skipped"
                /\ hashes' = hashes
                /\ lists' = lists
                /\ ttl' = ttl]_vars

C7_Witness ==
    /\ config.trackingEnabled
    /\ \E c, d \in Calls :
          /\ calls[c].pc = "skipped"
          /\ calls[c].input.path = PathHealth
          /\ calls[d].pc = "done"

\* C8: a tick whose report has no unused endpoint attempts no notification on any
\* channel and ends
C8_EmptyReportNotSent ==
    \A t \in Ticks :
        (ticks[t].built /\ Len(ticks[t].unusedEndpoints) = 0)
           => /\ \A ch \in Channels : ticks[t].attempts[ch] = 0
              /\ ticks[t].pending = {}
              /\ ticks[t].pc = "done"

C8_Witness ==
    \E t \in Ticks :
        /\ ticks[t].built
        /\ Len(ticks[t].unusedEndpoints) = 0
        /\ ticks[t].pc = "done"
        /\ rconfig.notifications = Channels
        /\ Len(discoveredRoutes) > 0

C9_Attempts ==
    \A t \in Ticks :
        /\ \A ch \in Channels : ticks[t].attempts[ch] <= 1
        /\ (ticks[t].built /\ Len(ticks[t].unusedEndpoints) > 0
              /\ ticks[t].pc \in {"awaiting", "html", "done"})
              => \A ch \in Channels :
                    ticks[t].attempts[ch] = IF ch \in rconfig.notifications THEN 1 ELSE 0
        /\ ticks[t].failed # {} => ~ticks[t].error

C9_FailureStep ==
    \A t \in Ticks :
        ticks'[t].failed # ticks[t].failed
           => /\ intervalId' = intervalId
              /\ timers' = timers
              /\ ticks'[t].attempts = ticks[t].attempts
              /\ ticks'[t].pc \in {"awaiting", "html", "done"}
              /\ \A u \in Ticks \ {t} : ticks'[u] = ticks[u]

\* C9: in a tick with unused endpoints every configured channel is attempted
\* exactly once and never again; a channel that fails leaves the other channels'
\* attempts, the tick and the timer as they are
C9_ChannelsIsolated == []C9_Attempts /\ [][C9_FailureStep]_vars

C9_Witness ==
    \E t, u \in Ticks :
        /\ ticks[t].pc = "done"
        /\ ticks[t].failed = {"webhook"}
        /\ ~ticks[t].error
        /\ \A ch \in Channels : ticks[t].attempts[ch] = 1
        /\ intervalId # 0
        /\ u # t
        /\ ticks[u].pc = "findUnused"

\* C10: at most one tick of the reporter is generating its report at any time
C10_SingleFlight ==
    Cardinality({t \in Ticks : ticks[t].pc \in Generating}) <= 1

Started(tks) == {t \in Ticks : tks[t].pc # "idle"}

ErrorTicks == {t \in Ticks : ticks[t].error}

C11_Caught == \A t \in ErrorTicks : ticks[t].pc = "done"

C11_TimerArmed ==
    (ErrorTicks # {} /\ intervalId # 0 /\ FreeTicks # {}) => ENABLED TimerFire(intervalId)

C11_ErrorStep ==
    \A t \in Ticks :
        (ticks'[t].error /\ ~ticks[t].error)
           => /\ intervalId' = intervalId
              /\ timers' = timers
              /\ \A u \in Ticks \ {t} : ticks'[u] = ticks[u]

\* C11: an error while a report is built ends its tick and nothing else: the
\* tick is done, the timer and the other ticks are as before, and while the
\* reporter is started the next firing of the timer can still begin a tick
C11_GenerationFailureCaught ==
    []C11_Caught /\ []C11_TimerArmed /\ [][C11_ErrorStep]_vars

C11_Witness ==
    \E t, u \in Ticks :
        /\ ticks[t].error
        /\ ticks[t].by = "start"
        /\ ticks[t].pc = "done"
        /\ ticks[u].by = "interval"
        /\ ticks[u].built
        /\ ~ticks[u].error
        /\ intervalId # 0

C12_Step ==
    LET began == Started(ticks') \ Started(ticks)
    IN  /\ Cardinality(began) <= 1
        /\ (intervalId = 0 /\ intervalId' # 0)
              => /\ rconfig.enabled
                 /\ intervalId' \in timers'
                 /\ \E t \in began : ticks'[t].by = "start"
        /\ \A t \in began :
              /\ ticks'[t].pc = "findUnused"
              /\ ticks'[t].by = "start"
                    => (rconfig.enabled /\ intervalId = 0 /\ intervalId' # 0)
              /\ ticks'[t].by = "interval"
                    => (intervalId # 0 /\ intervalId \in timers
                        /\ intervalId' = intervalId)

C12_IntervalArmed ==
    (intervalId # 0 /\ FreeTicks # {})
       => (intervalId \in timers /\ ENABLED TimerFire(intervalId))

C13_Stopped == intervalId = 0 => timers = {}

C13_Step ==
    /\ (intervalId # 0 /\ intervalId' = 0) => (timers' = {} /\ ticks' = ticks)
    /\ intervalId = 0
          => \A t \in Started(ticks') \ Started(ticks) :
                /\ ticks'[t].by = "start"
                /\ intervalId' # 0
                /\ timers' = {intervalId'}

C13_Restartable ==
    (intervalId = 0 /\ rconfig.enabled /\ FreeTicks # {}) => ENABLED <<Start>>_vars

\* C13: a stopped reporter has no armed timer and begins no tick; the only step
\* that begins a tick while it is stopped is a start(), which begins the tick at
\* once and arms a new timer, and which a stopped reporter can always take
C13_StopThenRestart == []C13_Stopped /\ [][C13_Step]_vars /\ []C13_Restartable

C13_Witness ==
    \E t, u \in Ticks :
        /\ t # u
        /\ ticks[t].by = "start"
        /\ ticks[u].by = "start"
        /\ intervalId # 0
        /\ intervalId \in timers

\* C14: in every step a route record that stays in the store keeps every field
\* it has (discovered_at, method, path) with its value
C14_RouteRecordSetOnce ==
    [][\A k \in RouteKeys(hashes) \cap RouteKeys(hashes') :
          \A f \in DOMAIN hashes[k] :
              /\ f \in DOMAIN hashes'[k]
              /\ hashes'[k][f] = hashes[k][f]]_vars

C14_Witness ==
    \E k \in RouteKeys(hashes) :
        /\ DOMAIN hashes[k] = {F("discovered_at"), F("method"), F("path")}
        /\ hashes[k][F("discovered_at")] < now
        /\ hashes[k][F("path")] = PathUserId
        /\ \A d \in Discoveries : disc[d].pc = "done"
        /\ \E i \in 1..Len(discoveredRoutes) : discoveredRoutes[i].path = PathUser1
        /\ ttl[k] = now + RouteTtlSeconds

\* the routes of the process that have no global record for their endpoint key,
\* or whose record was last accessed before the threshold
StaleRoutes ==
    {discoveredRoutes[i] : i \in
        {j \in 1..Len(discoveredRoutes) :
            LET r == discoveredRoutes[j]
                k == GlobalKey(normalizeEndpoint(config, r.method, r.path))
            IN  \/ k \notin DOMAIN hashes
                \/ HGet(hashes[k], F("last_accessed"), 0)
                      < now - rconfig.daysThreshold * Day}}

\* C15: the routes that findUnusedRoutes has returned to a tick are exactly the
\* known routes without usage, or with usage only before the threshold
C15_UnusedRoutesExact ==
    \A t \in Ticks :
        (ticks[t].pc = "build" \/ ticks[t].built)
           => {ticks[t].unusedRoutes[i] : i \in 1..Len(ticks[t].unusedRoutes)}
                 = StaleRoutes

\* the global records last accessed strictly before clock - daysThreshold days
LastAccessedBefore(clock, daysThreshold) ==
    {k \in GlobalKeys(hashes) :
        /\ DOMAIN hashes[k] # {}
        /\ HGet(hashes[k], F("last_accessed"), 0) < clock - daysThreshold * Day}

C16_Step ==
    (reads' # reads /\ reads'.kind = "unusedEndpoints")
       => LET stale == LastAccessedBefore(now, reads'.daysThreshold)
          IN  /\ Len(reads'.stats) = Cardinality(stale)
              /\ {reads'.stats[i] : i \in 1..Len(reads'.stats)}
                    = {StatOf(hashes, k) : k \in stale}

\* C16: getUnusedEndpoints(daysThreshold) returns exactly the endpoints whose
\* lastAccessed is strictly before now - daysThreshold days: one last accessed
\* exactly daysThreshold days ago is not returned, one accessed a day earlier is
C16_UnusedStrictlyBeforeThreshold == [][C16_Step]_vars

\* one event, 45 days pass, and getUnusedEndpoints(30) returns the endpoint
C16_Witness ==
    /\ reads.kind = "unusedEndpoints"
    /\ reads.daysThreshold = DaysThreshold
    /\ script.done = 1
    /\ Len(script.events) = 1
    /\ Len(reads.stats) = 1
    /\ now - reads.stats[1].lastAccessed = 45 * Day

\* the endpoint was last accessed exactly daysThreshold days ago and is not unused
C16_BoundaryWitness ==
    /\ reads.kind = "unusedEndpoints"
    /\ reads.daysThreshold = DaysThreshold
    /\ reads.stats = << >>
    /\ \E k \in GlobalKeys(hashes) :
          HGet(hashes[k], F("last_accessed"), 0) = now - DaysThreshold * Day

\* 45 days after the event getUnusedEndpoints(50) does not return the endpoint
C16_ExcludedWitness ==
    /\ reads.kind = "unusedEndpoints"
    /\ reads.daysThreshold = 50
    /\ reads.stats = << >>
    /\ \E k \in GlobalKeys(hashes) :
          HGet(hashes[k], F("last_accessed"), 0) = now - 45 * Day

\* a and b are numbers and they are equal
SameNumber(a, b) == a.den # 0 /\ b.den # 0 /\ a.num * b.den = b.num * a.den

\* total_response_time / response_count of a stored record, 0 without samples
AverageOf(h) ==
    IF HGet(h, F("response_count"), 0) > 0
    THEN Ratio(HGet(h, F("total_response_time"), 0), HGet(h, F("response_count"), 0))
    ELSE Ratio(0, 1)

FamilyOf(kind) == IF kind = "endpointStats" THEN "global" ELSE "performance"

\* the entries of stats that report the record stored under key k
EntriesOf(stats, k) ==
    {i \in 1..Len(stats) :
        LET parts == SplitLimit2(k.endpoint)
        IN  /\ stats[i].method = parts[1]
            /\ stats[i].path = (IF Len(parts) >= 2 THEN parts[2] ELSE << >>)}

C17_Step ==
    (reads' # reads /\ reads'.kind \in {"endpointStats", "performanceStats"})
       => \A k \in DOMAIN hashes :
             (k.family = FamilyOf(reads'.kind) /\ DOMAIN hashes[k] # {})
                => /\ EntriesOf(reads'.stats, k) # {}
                   /\ \A i \in EntriesOf(reads'.stats, k) :
                         SameNumber(reads'.stats[i].averageResponseTime,
                                    AverageOf(hashes[k]))

\* C17: every record returned by getEndpointStats and by getPerformanceStats has
\* averageResponseTime = total_response_time / response_count of the stored
\* record, and 0 when the record has no response-time sample
C17_AverageIsTotalOverCount == [][C17_Step]_vars

\* v is the element at index ceil(p/100 * n) - 1, clamped to [0, n-1], of the
\* samples sorted ascending; 0 when there is no sample
IsPercentile(v, samples, p) ==
    LET n == Len(samples)
        c == Ceil(p * n, 100)
        rank == IF c < 1 THEN 1 ELSE IF c > n THEN n ELSE c
        below == Cardinality({i \in 1..n : samples[i] < v})
        upTo == Cardinality({i \in 1..n : samples[i] <= v})
    IN  IF n = 0 THEN v = 0
        ELSE /\ \E i \in 1..n : samples[i] = v
             /\ below < rank
             /\ rank <= upTo

C18_Step ==
    (reads' # reads /\ reads'.kind = "performanceStats")
       => \A k \in PerfKeys(hashes) :
             DOMAIN hashes[k] # {}
                => /\ EntriesOf(reads'.stats, k) # {}
                   /\ \A i \in EntriesOf(reads'.stats, k) :
                         LET perf == reads'.stats[i].performance
                             samples == ResponseTimesOf(lists, k.endpoint)
                         IN  /\ IsPercentile(perf.p50ResponseTime, samples, 50)
                             /\ IsPercentile(perf.p95ResponseTime, samples, 95)
                             /\ IsPercentile(perf.p99ResponseTime, samples, 99)
                             /\ Len(samples) = 1
                                   => /\ perf.p50ResponseTime = samples[1]
                                      /\ perf.p95ResponseTime = samples[1]
                                      /\ perf.p99ResponseTime = samples[1]
                             /\ perf.p50ResponseTime <= perf.p95ResponseTime
                             /\ perf.p95ResponseTime <= perf.p99ResponseTime

\* C18: for the retained response-time samples of a key and p in {50, 95, 99} the
\* reported percentile is the element at index ceil(p/100 * n) - 1 (clamped to
\* [0, n-1]) of the samples sorted ascending; no sample gives 0 for all three, one
\* sample gives that sample for all three, and p50 <= p95 <= p99
C18_PercentileIsRankedSample == [][C18_Step]_vars

\* MaxEvents samples recorded in falling order: the three percentiles differ
C18_Witness ==
    /\ reads.kind = "performanceStats"
    /\ script.done = MaxEvents
    /\ \E i \in 1..Len(reads.stats) :
          LET perf == reads.stats[i].performance
          IN  /\ perf.p50ResponseTime < perf.p95ResponseTime
              /\ perf.p95ResponseTime < perf.p99ResponseTime

\* a record without any retained sample reports 0 for all three percentiles
C18_EmptyWitness ==
    /\ reads.kind = "performanceStats"
    /\ \E i \in 1..Len(reads.stats) :
          /\ reads.stats[i].path = PathB
          /\ reads.stats[i].performance.p50ResponseTime = 0
          /\ reads.stats[i].performance.p99ResponseTime = 0

\* the sum of the throughput buckets present in a performance record
ThroughputSum(h) == SumFields(h, {f \in DOMAIN h : f.name = "throughput_"})

C19_Step ==
    (reads' # reads /\ reads'.kind = "performanceStats")
       => \A k \in PerfKeys(hashes) :
             DOMAIN hashes[k] # {}
                => /\ EntriesOf(reads'.stats, k) # {}
                   /\ \A i \in EntriesOf(reads'.stats, k) :
                         reads'.stats[i].performance.throughput
                            = ThroughputSum(hashes[k])

\* C19: the throughput reported in an endpoint's performance stats equals the sum
\* of the throughput buckets present in the endpoint's performance record: k
\* after k events recorded within the last hour
C19_ThroughputIsBucketSum == [][C19_Step]_vars

\* the events of the script that trackUsage has recorded under endpoint
RecordedFor(endpoint) ==
    {i \in 1..script.done :
        /\ shouldTrackPath(config, script.events[i].path)
        /\ normalizeEndpoint(config, script.events[i].method, script.events[i].path)
              = endpoint}

ErrorsRecordedFor(endpoint) ==
    {i \in RecordedFor(endpoint) : script.events[i].statusCode >= 400}

ScriptEndpoints ==
    {normalizeEndpoint(config, script.events[i].method, script.events[i].path)
       : i \in 1..Len(script.events)}

\* no performance record can have expired yet
PerfRetained == now - T0 < PerfTtlSeconds

\* error_requests and total_requests count the recorded events
C20_Counted ==
    (config.performanceTracking.enabled /\ PerfRetained)
       => \A e \in ScriptEndpoints :
             LET h == HashOf(hashes, PerfKey(e))
             IN  /\ HGet(h, F("error_requests"), 0) = Cardinality(ErrorsRecordedFor(e))
                 /\ HGet(h, F("total_requests"), 0) = Cardinality(RecordedFor(e))

\* the reported errorRate is error_requests / total_requests
C20_RateStep ==
    (reads' # reads /\ reads'.kind = "performanceStats")
       => \A k \in PerfKeys(hashes) :
             DOMAIN hashes[k] # {}
                => /\ EntriesOf(reads'.stats, k) # {}
                   /\ \A i \in EntriesOf(reads'.stats, k) :
                         SameNumber(reads'.stats[i].performance.errorRate,
                                    IF HGet(hashes[k], F("total_requests"), 0) > 0
                                    THEN Ratio(HGet(hashes[k], F("error_requests"), 0),
                                               HGet(hashes[k], F("total_requests"), 0))
                                    ELSE Ratio(0, 1))

\* the report lists exactly the records whose errorRate is above 0.05
C20_ListStep ==
    (reads' # reads /\ reads'.kind = "highErrorRateEndpoints")
       => LET high == {k \in PerfKeys(hashes) :
                          HGet(hashes[k], F("error_requests"), 0) * 100
                             > ErrorRateThresholdPercent
                                  * HGet(hashes[k], F("total_requests"), 0)}
          IN  /\ Len(reads'.stats) = Cardinality(high)
              /\ \A k \in high : EntriesOf(reads'.stats, k) # {}
              /\ \A i \in 1..Len(reads'.stats) :
                    \E k \in high :
                       /\ i \in EntriesOf(reads'.stats, k)
                       /\ reads'.stats[i].totalRequests
                             = HGet(hashes[k], F("total_requests"), 0)

\* C20: with performance tracking enabled, after any sequence of completed
\* trackUsage calls error_requests is the number of recorded events with
\* statusCode >= 400, the reported errorRate is error_requests / total_requests
\* (0 without requests), and the report's highErrorRateEndpoints lists the
\* endpoints whose errorRate is above 0.05 (2 errors in 20 requests: listed)
C20_ErrorRateCountedAndListed ==
    []C20_Counted /\ [][C20_RateStep]_vars /\ [][C20_ListStep]_vars

\* MaxEvents requests of which 2 failed: the endpoint is listed
C20_Witness ==
    /\ reads.kind = "highErrorRateEndpoints"
    /\ script.events = ErrorScript(2)
    /\ script.done = MaxEvents
    /\ Len(reads.stats) = 1
    /\ reads.stats[1].errorRate = Ratio(2, MaxEvents)
    /\ reads.stats[1].totalRequests = MaxEvents

\* MaxEvents requests of which 1 failed: the endpoint is not listed
C20_BelowWitness ==
    /\ reads.kind = "highErrorRateEndpoints"
    /\ script.events = ErrorScript(1)
    /\ script.done = MaxEvents
    /\ config.performanceTracking.enabled
    /\ config.trackingEnabled
    /\ reads.stats = << >>

\* C23: in a generated report an unused route without any usage record has
\* daysSinceLastUse = daysThreshold + 1 and totalRequests = 0, and an unused route
\* with a usage record has daysSinceLastUse = floor((now - lastAccessed) / 1 day)
\* and totalRequests = the recorded count
C23_UnusedDetails ==
    \A t \in Ticks :
        ticks[t].built
           => \A i \in 1..Len(ticks[t].unusedEndpoints) :
                 LET d == ticks[t].unusedEndpoints[i]
                     k == GlobalKey(normalizeEndpoint(config, d.method, d.path))
                 IN  IF k \notin DOMAIN hashes
                     THEN /\ d.daysSinceLastUse = rconfig.daysThreshold + 1
                          /\ d.totalRequests = 0
                     ELSE /\ d.daysSinceLastUse
                                = (now - HGet(hashes[k], F("last_accessed"), 0)) \div Day
                          /\ d.totalRequests = HGet(hashes[k], F("count"), 0)

\* a step of generateReport: its first or its second read of the stats
GenerationStep ==
    \E t \in Ticks : ticks[t].pc \in Generating /\ ticks'[t].pc # ticks[t].pc

C26_Step ==
    GenerationStep
       => /\ hashes' = hashes
          /\ lists' = lists
          /\ ttl' = ttl
          /\ discoveredRoutes' = discoveredRoutes

C22_UnusedPercentage ==
    \A t \in Ticks :
        ticks[t].built
           => LET unused == Len(ticks[t].unusedRoutes)
                  total == Len(discoveredRoutes)
                  p == ticks[t].unusedPercentage
              IN  IF total = 0 THEN p = 0
                  ELSE /\ 2 * total * p <= 200 * unused + total
                       /\ 200 * unused + total < 2 * total * (p + 1)

C21_Step ==
    (reads' # reads /\ reads'.kind = "highErrorRateEndpoints")
       => \A k \in PerfKeys(hashes) :
             AverageOf(hashes[k]).num > SlowEndpointThresholdMs * AverageOf(hashes[k]).den
                => EntriesOf(reads'.slowEndpoints, k) # {}

\* C21: a generated report lists as slow every endpoint of the performance stats
\* whose average response time, total_response_time / response_count as
\* accumulated by trackUsage, is above the slow threshold (2000 ms by default)
C21_SlowEndpointsListed == [][C21_Step]_vars

C25_Step ==
    /\ (reads' # reads /\ reads'.kind = "endpointStats")
          => \A i \in 1..(Len(reads'.stats) - 1) :
                reads'.stats[i].count >= reads'.stats[i + 1].count
    /\ (reads' # reads /\ reads'.kind = "performanceStats")
          => \A i \in 1..(Len(reads'.stats) - 1) :
                reads'.stats[i].performance.p95ResponseTime
                   >= reads'.stats[i + 1].performance.p95ResponseTime

\* C25: the unfiltered getEndpointStats() returns its records by non-increasing
\* count and the unfiltered getPerformanceStats() by non-increasing p95 response
\* time, whatever the store holds and in whatever order KEYS lists the keys
C25_ResultsSorted == [][C25_Step]_vars

\* two endpoints with different counts have been read
C25_Witness ==
    /\ reads.kind = "endpointStats"
    /\ Len(reads.stats) = 2
    /\ reads.stats[1].count > reads.stats[2].count

\* C27: once the trackUsage calls have completed, the raw list of a key holds no
\* event whose timestamp is more than 30 days old, also for an endpoint that keeps
\* receiving requests
C27_RawListWithinRetention ==
    InFlight = {}
       => \A k \in DOMAIN lists :
             \A i \in 1..Len(lists[k]) : now - lists[k][i].timestamp <= RawTtlSeconds

C28_Step ==
    \A olderThanDays \in ClearParameters :
        ClearStats(olderThanDays)
           => LET keys == DOMAIN hashes \cup DOMAIN lists
                  old == {k \in keys : k.family = "daily"
                                          /\ k.date * Day < now - olderThanDays * Day}
                  gone == IF olderThanDays >= 0 THEN old ELSE keys
              IN  /\ hashes' = [k \in DOMAIN hashes \ gone |-> hashes[k]]
                  /\ lists' = [k \in DOMAIN lists \ gone |-> lists[k]]

\* C28: clearStats(olderThanDays) with a parameter >= 0 deletes the daily records
\* dated before now - olderThanDays days and nothing else; clearStats() without a
\* parameter deletes every key
C28_ClearStatsDeletesOnlyOld == [][C28_Step]_vars

\* the throughput buckets of a performance record
Buckets(h) == {f \in DOMAIN h : f.name = "throughput_"}

\* call c completes its performance write, cleanup included
CompletesWrite(c) ==
    /\ calls[c].pc \in {"cleanup", "hdel"}
    /\ calls'[c].pc = "done"

C30_Step ==
    \A c \in Calls :
        CompletesWrite(c)
           => LET k == PerfKey(calls[c].endpoint)
                  fresh(f) == f.arg >= calls[c].timestamp - Hour
              IN  /\ \A f \in Buckets(HashOf(hashes', k)) : fresh(f)
                  /\ \A f \in Buckets(HashOf(hashes, k)) :
                        fresh(f) => f \in Buckets(HashOf(hashes', k))

\* C30: when the performance write of an event with timestamp t has completed,
\* its cleanup included, a throughput bucket remains in the performance record
\* iff its minute boundary is >= t - one hour
C30_PrunesExactlyStaleBuckets == [][C30_Step]_vars

CleanupStep ==
    \A c \in Calls :
        CompletesWrite(c)
           => LET k == PerfKey(calls[c].endpoint)
                  before == Buckets(HashOf(hashes, k))
                  after == Buckets(HashOf(hashes', k))
                  stale == {f \in before : f.arg < calls[c].timestamp - Hour}
              IN  IF calls[c].pc = "cleanup"
                  THEN stale = {} /\ after = before
                  ELSE /\ calls[c].toDelete # {}
                       /\ \A f \in calls[c].toDelete : f.arg < calls[c].timestamp - Hour
                       /\ after = before \ calls[c].toDelete

\* what the cleanup does establish: the cleanup of a performance write with
\* timestamp t removes exactly the buckets whose minute boundary was < t - one hour when the cleanup
\* read the record; it never removes a bucket >= t - one hour, and a stale bucket
\* that another call writes between that read and the delete stays
CleanupPrunesBucketsStaleAtRead == [][CleanupStep]_vars

\* the rules in the order of their messages
Rules == <<"allUsed", "veryOld", "neverUsed", "manyUnused", "slow", "verySlow",
           "highErrorRate">>

\* the elements of seq that satisfy the rule's test
Matching(rule, a) ==
    CASE rule = "veryOld" ->
            {i \in DOMAIN a.unusedEndpoints :
                a.unusedEndpoints[i].daysSinceLastUse > 90}
      [] rule = "neverUsed" ->
            {i \in DOMAIN a.unusedEndpoints : a.unusedEndpoints[i].totalRequests = 0}
      [] rule = "slow" -> DOMAIN a.slowEndpoints
      [] rule = "verySlow" ->
            {i \in DOMAIN a.slowEndpoints :
                a.slowEndpoints[i].averageResponseTime.num
                   > 5000 * a.slowEndpoints[i].averageResponseTime.den}
      [] rule = "highErrorRate" -> DOMAIN a.highErrorRateEndpoints
      [] OTHER -> {}

RuleHolds(rule, a) ==
    CASE rule = "allUsed" -> Len(a.unusedEndpoints) = 0
      [] rule = "manyUnused" -> Len(a.unusedEndpoints) > 5
      [] OTHER -> Matching(rule, a) # {}

\* list is exactly the messages of the rules that hold for a, in the order of Rules
IsRecommendationList(list, a) ==
    /\ \A r \in DOMAIN Rules :
          RuleHolds(Rules[r], a)
             <=> \E i \in DOMAIN list : list[i].rule = Rules[r]
    /\ \A i \in DOMAIN list :
          /\ \E r \in DOMAIN Rules : list[i].rule = Rules[r]
          /\ list[i].n = Cardinality(Matching(list[i].rule, a))
    /\ \A i, j \in DOMAIN list :
          i < j => \E r, q \in DOMAIN Rules :
                      r < q /\ list[i].rule = Rules[r] /\ list[j].rule = Rules[q]

\* C24: the recommendation list holds exactly the messages of the rules whose
\* condition holds for the unused, slow and high-error-rate lists, in the fixed
\* order of the rules, and two generations from the same lists give the same list
C24_RecommendationsDeterministic ==
    /\ \A g \in DOMAIN returned : IsRecommendationList(returned[g], arguments)
    /\ \A g, h \in DOMAIN returned : returned[g] = returned[h]

\* two generations from lists for which six of the seven rules hold
C24_Witness ==
    /\ Len(returned) = Generations
    /\ Len(returned[Generations]) = 6
    /\ Len(arguments.unusedEndpoints) > 5

\* the praise is the only message of the unused rules when nothing is unused
C24_PraiseWitness ==
    /\ Len(returned) = Generations
    /\ Len(arguments.unusedEndpoints) = 0
    /\ returned[1][1].rule = "allUsed"
    /\ Len(arguments.slowEndpoints) > 0

\* C29: normalizing the result of a normalization returns it unchanged, for
\* every method and path (query strings, numeric and UUID-shaped segments included)
C29_NormalizeIdempotent == Len(returned) = 2 => returned[2] = returned[1]

\* a path with a numeric segment and a UUID-shaped segment has been normalized
\* twice, and the first normalization rewrote both
C29_Witness ==
    /\ Len(returned) = 2
    /\ arguments.method = get
    /\ arguments.path = <<"/", "1", "/">> \o UuidOfLetters
    /\ returned[1] = GET \o <<":", "/", ":", "i", "d", "/", ":", "u", "u", "i", "d">>

\* a path with a query string has been normalized twice, and the first
\* normalization dropped the query string
C29_QueryWitness ==
    /\ Len(returned) = 2
    /\ ~config.includeQueryParams
    /\ arguments.path = <<"/", "1", "?", "a">>
    /\ returned[1] = GET \o <<":", "/", ":", "i", "d">>

\* the deadline of key k was set by an EXPIRE of seconds that call c issued
SetBy(c, k, seconds) ==
    /\ k \in DOMAIN ttl'
    /\ ttl'[k] >= calls[c].timestamp + seconds
    /\ ttl'[k] <= now' + seconds

\* the time of the last write to the record of key k
LastWrite(k) ==
    IF k \in DOMAIN lists THEN lists[k][1].timestamp
    ELSE HGet(hashes[k], F("last_accessed"), HGet(hashes[k], F("discovered_at"), 0))

TtlOf(k) ==
    CASE k.family = "raw" -> RawTtlSeconds
      [] k.family = "routes" -> RouteTtlSeconds
      [] OTHER -> DailyTtlSeconds

C31_Completed ==
    \A c \in Calls :
        calls[c].pc \notin Terminal /\ calls'[c].pc = "done"
           => LET endpoint == calls[c].endpoint
              IN  /\ SetBy(c, RawKey(endpoint), RawTtlSeconds)
                  /\ \E today \in Today(calls[c].timestamp)..Today(now') :
                        SetBy(c, DailyKey(today, endpoint), DailyTtlSeconds)
                  /\ config.performanceTracking.enabled
                        => SetBy(c, PerfKey(endpoint), PerfTtlSeconds)
                  /\ GlobalKey(endpoint) \in DOMAIN hashes'
                  /\ GlobalKey(endpoint) \notin DOMAIN ttl'

C31_Registered ==
    \A d \in Discoveries :
        disc[d].pc = "registering" /\ Len(disc[d].pipe) = 1
        /\ disc'[d] # disc[d]
           => LET k == Head(disc[d].pipe).key
              IN  k \in DOMAIN ttl' /\ ttl'[k] = now' + RouteTtlSeconds

C31_Expired ==
    \A k \in (DOMAIN hashes \cup DOMAIN lists) \ (DOMAIN hashes' \cup DOMAIN lists') :
        LastWrite(k) + TtlOf(k) <= now'

\* C31: a completed trackUsage leaves the raw list with a time-to-live of 30
\* days, the daily and the performance record with one of 90 days and the global
\* record with none, a completed registerRoute leaves the route record with one
\* of 365 days, and a key expires only that long after the last write to it
C31_WritesSetTimeToLive == [][C31_Completed /\ C31_Registered /\ C31_Expired]_vars

\* the recorded events of the endpoint that carry a response time
TimedFor(endpoint) ==
    {i \in RecordedFor(endpoint) : script.events[i].responseTime # Undef}

RECURSIVE SumOfTimes(_)
SumOfTimes(S) ==
    IF S = {} THEN 0
    ELSE LET i == CHOOSE j \in S : TRUE
         IN  script.events[i].responseTime + SumOfTimes(S \ {i})

SamplesCounted(h, endpoint) ==
    /\ HGet(h, F("response_count"), 0) = Cardinality(TimedFor(endpoint))
    /\ HGet(h, F("total_response_time"), 0) = SumOfTimes(TimedFor(endpoint))

\* C32: every recorded event that carries a response time >= 0 adds it to
\* total_response_time and adds 1 to response_count in the global, the daily and
\* the performance record, and is one of the samples of the percentiles
C32_EveryResponseTimeCounted ==
    now = T0
       => \A endpoint \in ScriptEndpoints :
             /\ SamplesCounted(HashOf(hashes, GlobalKey(endpoint)), endpoint)
             /\ SamplesCounted(HashOf(hashes, DailyKey(Today(T0), endpoint)), endpoint)
             /\ config.performanceTracking.enabled
                   => SamplesCounted(HashOf(hashes, PerfKey(endpoint)), endpoint)
             /\ Len(ResponseTimesOf(lists, endpoint)) = Cardinality(TimedFor(endpoint))

C33_Step ==
    (reads' # reads /\ reads'.kind \in {"endpointStats", "performanceStats"})
       => /\ \A k \in DOMAIN hashes :
                (k.family = FamilyOf(reads'.kind) /\ DOMAIN hashes[k] # {})
                   => \E i \in 1..Len(reads'.stats) :
                         reads'.stats[i].method \o <<":">> \o reads'.stats[i].path
                            = k.endpoint
          /\ \A i, j \in 1..Len(reads'.stats) :
                (/\ reads'.stats[i].method = reads'.stats[j].method
                 /\ reads'.stats[i].path = reads'.stats[j].path) => i = j

\* C33: the entry that getEndpointStats and getPerformanceStats return for a
\* stored record carries the method and the path of the normalized key of the
\* record, and no two entries carry the same method and path
C33_KeyRoundTrip == [][C33_Step]_vars

RECURSIVE MapSetAll(_, _)
MapSetAll(routes, queue) ==
    IF queue = << >> THEN routes
    ELSE MapSetAll(MapSet(routes, Head(queue)), Tail(queue))

RECURSIVE ReturnedUpTo(_)
\* the routes that the calls 1..d of discoverExpressRoutes have returned: the
\* routes in the map and the routes their loops have not set yet
ReturnedUpTo(d) ==
    IF d = 0 THEN discoveredRoutes
    ELSE MapSetAll(ReturnedUpTo(d - 1), disc[d].queue)

C34_Step ==
    /\ \A d \in Discoveries :
          (disc[d].pc = "idle" /\ disc'[d].pc # "idle")
             => Len(discoveredRoutes') = Len(ReturnedUpTo(MaxDiscoveries))'
    /\ \A t \in Ticks :
          (ticks[t].pc = "build" /\ ticks'[t].built)
             => /\ ticks'[t].totalRoutes = Len(ReturnedUpTo(MaxDiscoveries))
                /\ Len(ticks'[t].unusedRoutes) <= ticks'[t].totalRoutes

\* C34: when discoverExpressRoutes returns, every route it returns is in the map
\* of discovered routes, and a report built afterwards counts as total the
\* routes discovered so far, of which the unused ones are a part
C34_ReportCountsDiscoveredRoutes == [][C34_Step]_vars

\* C35: every entry of the unused endpoints of a report has a daysSinceLastUse of
\* at least the days threshold of the report, whatever trackUsage calls run while
\* the report is generated
C35_UnusedAtLeastThreshold ==
    \A t \in Ticks :
       \A i \in 1..Len(ticks[t].unusedEndpoints) :
          ticks[t].unusedEndpoints[i].daysSinceLastUse >= rconfig.daysThreshold

\* C36: a discovered route whose path is excluded from tracking is neither among
\* the routes that findUnusedRoutes returns nor among the unused endpoints of a
\* report
C36_ExcludedNeverUnused ==
    \A t \in Ticks :
       /\ \A i \in 1..Len(ticks[t].unusedRoutes) :
             shouldTrackPath(config, ticks[t].unusedRoutes[i].path)
       /\ \A i \in 1..Len(ticks[t].unusedEndpoints) :
             shouldTrackPath(config, ticks[t].unusedEndpoints[i].path)

InOrder(h, less, more) == HGet(h, F(less), 0) <= HGet(h, F(more), 0)

\* C37: in every state, the states in the middle of an update included, a global
\* or daily record has counted no more status codes and no more response times
\* than requests, and a performance record no more errors than requests and no
\* more slow requests than response times than requests; the reported errorRate
\* is therefore between 0 and 1
C37_CountersInOrder ==
    \A k \in DOMAIN hashes :
        /\ k.family \in {"global", "daily"}
              => /\ StatusSum(hashes[k]) <= HGet(hashes[k], F("count"), 0)
                 /\ InOrder(hashes[k], "response_count", "count")
        /\ k.family = "performance"
              => /\ InOrder(hashes[k], "error_requests", "total_requests")
                 /\ InOrder(hashes[k], "slow_requests", "response_count")
                 /\ InOrder(hashes[k], "response_count", "total_requests")
                 /\ LET errorRate == PerfStatOf(hashes, lists, k).performance.errorRate
                    IN  0 <= errorRate.num /\ errorRate.num <= errorRate.den

\* the route keys that a registerRoute call in flight is writing
BeingRegistered ==
    UNION { {disc[d].pipe[i].key : i \in 1..Len(disc[d].pipe)}
            : d \in {b \in Discoveries : disc[b].pc = "registering"} }

\* C38: getRegisteredRoutes returns no route record without method, path or
\* discovery time, whatever registerRoute calls are in flight, and no route key
\* that registerRoute has written and left is without its time to live of 365
\* days, also when a command of registerRoute has failed
C38_RouteVisibleWholeOrNot ==
    /\ reads.kind = "registeredRoutes"
          => \A i \in 1..Len(reads.stats) :
                /\ reads.stats[i].method # << >>
                /\ reads.stats[i].path # << >>
                /\ reads.stats[i].discoveredAt # 0
    /\ \A k \in RouteKeys(hashes) \ BeingRegistered :
          k \in DOMAIN ttl /\ ttl[k] <= now + RouteTtlSeconds

\* C39: whatever start() and stop() calls have been made, the only active timer
\* is the one the reporter remembers, so there is at most one; a start() of a
\* running or of a disabled reporter and a stop() of a stopped reporter change
\* nothing, and a disabled reporter has no timer and begins no tick
C39_AtMostOneTimer ==
    /\ timers = (IF intervalId = 0 THEN {} ELSE {intervalId})
    /\ Cardinality(timers) <= 1
    /\ (~rconfig.enabled \/ intervalId # 0) => ~ENABLED <<Start>>_vars
    /\ intervalId = 0 => ~ENABLED <<Stop>>_vars
    /\ ~rconfig.enabled => (timers = {} /\ Started(ticks) = {})

\* a running reporter that could begin another tick
C39_Witness ==
    /\ rconfig.enabled
    /\ intervalId # 0
    /\ timers = {intervalId}
    /\ FreeTicks # {}
    /\ \E t \in Ticks : ticks[t].by = "start" /\ ticks[t].pc = "done"

\* the endpoints that have a raw list or a global, daily or performance record
StoredEndpoints ==
    {k.endpoint : k \in {x \in DOMAIN hashes \cup DOMAIN lists :
                            x.family \in {"raw", "global", "daily", "performance"}}}

RawLength(e) == IF RawKey(e) \in DOMAIN lists THEN Len(lists[RawKey(e)]) ELSE 0

RECURSIVE SumOfCounts(_)
SumOfCounts(keys) ==
    IF keys = {} THEN 0
    ELSE LET k == CHOOSE x \in keys : TRUE
         IN  HGet(hashes[k], F("count"), 0) + SumOfCounts(keys \ {k})

DailyCount(e) ==
    SumOfCounts({k \in DOMAIN hashes : k.family = "daily" /\ k.endpoint = e})

\* C40: when no trackUsage call for an endpoint is in flight, whether the calls
\* have completed or have been ended by a failure of the store, the global count
\* of the endpoint, the sum of its daily counts and the length of its raw list
\* are equal, and equal to total_requests of its performance record when
\* performance tracking is enabled
C40_FamiliesAgree ==
    \A e \in StoredEndpoints :
        (\A c \in InFlight : calls[c].endpoint # e)
           => /\ GlobalCount(e) = DailyCount(e)
              /\ GlobalCount(e) = RawLength(e)
              /\ config.performanceTracking.enabled
                    => GlobalCount(e)
                          = HGet(HashOf(hashes, PerfKey(e)), F("total_requests"), 0)

====
